---- MODULE Spec2Model ----
\* A model of bin/cs2-chat-translator.js: the chat-line parser, the command
\* dispatcher (handleLine, handleTl, handleCodeLang, handleTm,
\* autoTranslateToConsole), the translation wrapper smartTranslate, the
\* language helper bestLangMatch and the cfg sink (writeChatCfg, pressBindKey),
\* run by the Node.js event loop.
\*
\* Text is modelled as a sequence of characters, each character a one-element
\* TLA+ string.  Characters outside ASCII are written by their code point
\* ("U041F" is the Cyrillic capital letter PE).
EXTENDS Integers, Sequences, FiniteSets, TLC

\* ---------------------------------------------------------------------------
\* Characters
\* ---------------------------------------------------------------------------

LowerSeq ==
  << "a","b","c","d","e","f","g","h","i","j","k","l","m",
     "n","o","p","q","r","s","t","u","v","w","x","y","z",
     "U043F" >>

UpperSeq ==
  << "A","B","C","D","E","F","G","H","I","J","K","L","M",
     "N","O","P","Q","R","S","T","U","V","W","X","Y","Z",
     "U041F" >>

AsciiLower == { LowerSeq[i] : i \in 1..26 }

AsciiUpper == { UpperSeq[i] : i \in 1..26 }

Digits == { "0","1","2","3","4","5","6","7","8","9" }

\* \s of a JavaScript regular expression, and the characters String.trim strips.
WhiteSpace == { " ", "\t" }

\* \w of a JavaScript regular expression: [A-Za-z0-9_].
WordChars == AsciiLower \cup AsciiUpper \cup Digits \cup { "_" }

\* CYRILLIC_REGEX = /[\u0400-\u04FF]/: the characters of that block in use here.
CyrillicChars == { "U041F", "U043F", "U0440", "U0438" }

\* String.prototype.toLowerCase on one character.
LowerChar(c) ==
  IF \E i \in 1..Len(UpperSeq) : UpperSeq[i] = c
  THEN LowerSeq[CHOOSE i \in 1..Len(UpperSeq) : UpperSeq[i] = c]
  ELSE c

\* String.prototype.toUpperCase on one character.
UpperChar(c) ==
  IF \E i \in 1..Len(LowerSeq) : LowerSeq[i] = c
  THEN UpperSeq[CHOOSE i \in 1..Len(LowerSeq) : LowerSeq[i] = c]
  ELSE c

\* ---------------------------------------------------------------------------
\* String helpers (the JavaScript String methods the program uses)
\* ---------------------------------------------------------------------------

ToLowerCase(s) == [ i \in 1..Len(s) |-> LowerChar(s[i]) ]

ToUpperCase(s) == [ i \in 1..Len(s) |-> UpperChar(s[i]) ]

\* s.slice(n) with n a count of characters to drop.
Slice(s, n) == IF n >= Len(s) THEN << >> ELSE SubSeq(s, n + 1, Len(s))

\* String.prototype.trim.
Trim(s) ==
  LET keep == { i \in 1..Len(s) : s[i] \notin WhiteSpace }
  IN  IF keep = {} THEN << >>
      ELSE LET lo == CHOOSE i \in keep : \A j \in keep : i <= j
               hi == CHOOSE i \in keep : \A j \in keep : j <= i
           IN  SubSeq(s, lo, hi)

\* Index of the first occurrence of character c in s, 0 when there is none.
IndexOf(s, c) ==
  IF \E i \in 1..Len(s) : s[i] = c
  THEN CHOOSE i \in 1..Len(s) : s[i] = c /\ \A j \in 1..(i - 1) : s[j] # c
  ELSE 0

\* s.split(" "): the pieces between single space characters.
RECURSIVE SplitSpace(_)
SplitSpace(s) ==
  LET k == IndexOf(s, " ")
  IN  IF k = 0 THEN << s >>
      ELSE << SubSeq(s, 1, k - 1) >> \o SplitSpace(Slice(s, k))

\* parts.join(" ").
RECURSIVE JoinSpace(_)
JoinSpace(parts) ==
  IF Len(parts) = 0 THEN << >>
  ELSE IF Len(parts) = 1 THEN parts[1]
  ELSE parts[1] \o << " " >> \o JoinSpace(Tail(parts))

\* A prefix test without the /i flag: the property of C6 tells it from
\* StartsWithCI.
StartsWithExactly(s, lit) ==
  /\ Len(s) >= Len(lit)
  /\ SubSeq(s, 1, Len(lit)) = lit

\* s starts with the literal lit, compared case-insensitively (the /i flag).
StartsWithCI(s, lit) ==
  /\ Len(s) >= Len(lit)
  /\ ToLowerCase(SubSeq(s, 1, Len(lit))) = lit

\* \b at the position after character k of s (1 <= k <= Len(s)).
WordBoundaryAfter(s, k) ==
  LET left  == s[k] \in WordChars
      right == k < Len(s) /\ s[k + 1] \in WordChars
  IN  left # right

\* ---------------------------------------------------------------------------
\* The regular expressions of the dispatcher
\* ---------------------------------------------------------------------------

\* /^_tl\b/i
ReTl(m) == StartsWithCI(m, << "_", "t", "l" >>) /\ WordBoundaryAfter(m, 3)

\* /^tm_[a-z_]{2,5}\b/i
ReTm(m) ==
  /\ StartsWithCI(m, << "t", "m", "_" >>)
  /\ \E k \in 2..5 :
       /\ Len(m) >= 3 + k
       /\ \A i \in 4..(3 + k) : LowerChar(m[i]) \in AsciiLower \cup { "_" }
       /\ WordBoundaryAfter(m, 3 + k)

\* /^code[_\s]/i
ReCodePrefix(m) ==
  /\ StartsWithCI(m, << "c", "o", "d", "e" >>)
  /\ Len(m) >= 5
  /\ m[5] \in WhiteSpace \cup { "_" }

\* /^code[_\s]+(.+)$/i : whether it matches.
ReCode(m) == ReCodePrefix(m) /\ Len(m) >= 6

\* /^code[_\s]+(.+)$/i : capture group 1.  [_\s]+ is greedy and gives back one
\* character when it ran to the end of the message.
ReCodeGroup(m) ==
  LET seps == { i \in 5..Len(m) :
                  \A j \in 5..i : m[j] \in WhiteSpace \cup { "_" } }
      last == CHOOSE i \in seps : \A j \in seps : j <= i
  IN  IF last = Len(m) THEN SubSeq(m, Len(m), Len(m)) ELSE Slice(m, last)

\* /^[.\s]+$/
ReDots(m) ==
  /\ Len(m) >= 1
  /\ \A i \in 1..Len(m) : m[i] \in WhiteSpace \cup { "." }

\* /^(_tl\b|tm_[a-z_]{2,5}\b|code[_\s])/i of autoTranslateToConsole, and
\* /^tm_[a-z_]{2,5}\b|^_tl\b|^code[_\s]/i of handleLine.
ReCommand(m) == ReTl(m) \/ ReTm(m) \/ ReCodePrefix(m)

\* ---------------------------------------------------------------------------
\* Chat line parser: /\[(CT|T|ALL)\]\s+([^:]+):\s(.+)/ of handleLine
\* ---------------------------------------------------------------------------

\* A parser that takes any one-letter channel: the property of C18 tells it
\* from ChannelTokens.
ChannelTokens_AnyLetter ==
  { << "C", "T" >>, << "A", "L", "L" >> } \cup { << c >> : c \in AsciiUpper }

ChannelTokens == { << "C", "T" >>, << "T" >>, << "A", "L", "L" >> }

\* The match attempt that starts at position i with channel token ch: the
\* sender field ends at the first colon after the bracket, \s+ needs one
\* white-space character, [^:]+ one character, and one white-space character
\* and at least one more character follow the colon.
LineMatchAt(line, i, ch) ==
  LET rb   == i + Len(ch) + 1
      rest == Slice(line, rb)
      c    == rb + IndexOf(rest, ":")
  IN  /\ rb <= Len(line)
      /\ SubSeq(line, i, rb) = << "[" >> \o ch \o << "]" >>
      /\ IndexOf(rest, ":") >= 3
      /\ line[rb + 1] \in WhiteSpace
      /\ c + 2 <= Len(line)
      /\ line[c + 1] \in WhiteSpace

LineMatches(line) ==
  \E i \in 1..Len(line) : \E ch \in ChannelTokens : LineMatchAt(line, i, ch)

\* The position at which the leftmost match starts.
LineMatchStart(line) ==
  CHOOSE k \in 1..Len(line) :
    /\ \E ch \in ChannelTokens : LineMatchAt(line, k, ch)
    /\ \A j \in 1..(k - 1) : \A ch \in ChannelTokens : ~LineMatchAt(line, j, ch)

\* The capture groups [team, player, messageRaw] of the match whose closing
\* bracket is at rb and whose colon is at c.  \s+ is greedy and leaves [^:]+
\* at least one character: the sender field starts after the last position w
\* of the white space that \s+ takes.
\* A parser whose message starts after the last colon of the line: the
\* property of C19 tells it from LineGroupsAt.
LineGroupsAt_LastColon(line, ch, rb, c) ==
  LET ws   == { k \in (rb + 1)..(c - 2) :
                  \A j \in (rb + 1)..k : line[j] \in WhiteSpace }
      last == CHOOSE k \in 1..Len(line) :
                line[k] = ":" /\ \A j \in (k + 1)..Len(line) : line[j] # ":"
  IN  [ team       |-> ch,
        player     |-> SubSeq(line, (CHOOSE k \in ws : \A j \in ws : j <= k) + 1,
                              c - 1),
        messageRaw |-> SubSeq(line, last + 2, Len(line)) ]

LineGroupsAt(line, ch, rb, c) ==
  LET ws == { k \in (rb + 1)..(c - 2) :
                \A j \in (rb + 1)..k : line[j] \in WhiteSpace }
  IN  [ team       |-> ch,
        player     |-> SubSeq(line, (CHOOSE k \in ws : \A j \in ws : j <= k) + 1,
                              c - 1),
        messageRaw |-> SubSeq(line, c + 2, Len(line)) ]

LineGroupsFrom(line, i, ch) ==
  LineGroupsAt(line, ch, i + Len(ch) + 1,
               i + Len(ch) + 1 + IndexOf(Slice(line, i + Len(ch) + 1), ":"))

LineGroupsOf(line, i) ==
  LineGroupsFrom(line, i, CHOOSE t \in ChannelTokens : LineMatchAt(line, i, t))

\* The capture groups of the leftmost match.
LineGroups(line) == LineGroupsOf(line, LineMatchStart(line))

\* ---------------------------------------------------------------------------
\* Language catalog
\* ---------------------------------------------------------------------------

LANG_MAP ==
  <<
     [ code |-> <<"a","f">>, name |-> <<"A","f","r","i","k","a","a","n","s">> ],
     [ code |-> <<"s","q">>, name |-> <<"A","l","b","a","n","i","a","n">> ],
     [ code |-> <<"a","m">>, name |-> <<"A","m","h","a","r","i","c">> ],
     [ code |-> <<"a","r">>, name |-> <<"A","r","a","b","i","c">> ],
     [ code |-> <<"h","y">>, name |-> <<"A","r","m","e","n","i","a","n">> ],
     [ code |-> <<"a","z">>, name |-> <<"A","z","e","r","b","a","i","j","a","n","i">> ],
     [ code |-> <<"e","u">>, name |-> <<"B","a","s","q","u","e">> ],
     [ code |-> <<"b","e">>, name |-> <<"B","e","l","a","r","u","s","i","a","n">> ],
     [ code |-> <<"b","n">>, name |-> <<"B","e","n","g","a","l","i">> ],
     [ code |-> <<"b","s">>, name |-> <<"B","o","s","n","i","a","n">> ],
     [ code |-> <<"b","g">>, name |-> <<"B","u","l","g","a","r","i","a","n">> ],
     [ code |-> <<"c","a">>, name |-> <<"C","a","t","a","l","a","n">> ],
     [ code |-> <<"c","e","b">>, name |-> <<"C","e","b","u","a","n","o">> ],
     [ code |-> <<"n","y">>, name |-> <<"C","h","i","c","h","e","w","a">> ],
     [ code |-> <<"z","h">>, name |-> <<"C","h","i","n","e","s","e">> ],
     [ code |-> <<"z","h","_","c","n">>, name |-> <<"C","h","i","n","e","s","e"," ","(","S","i","m","p","l","i","f","i","e","d",")">> ],
     [ code |-> <<"z","h","_","t","w">>, name |-> <<"C","h","i","n","e","s","e"," ","(","T","r","a","d","i","t","i","o","n","a","l",")">> ],
     [ code |-> <<"c","o">>, name |-> <<"C","o","r","s","i","c","a","n">> ],
     [ code |-> <<"h","r">>, name |-> <<"C","r","o","a","t","i","a","n">> ],
     [ code |-> <<"c","s">>, name |-> <<"C","z","e","c","h">> ],
     [ code |-> <<"d","a">>, name |-> <<"D","a","n","i","s","h">> ],
     [ code |-> <<"n","l">>, name |-> <<"D","u","t","c","h">> ],
     [ code |-> <<"e","n">>, name |-> <<"E","n","g","l","i","s","h">> ],
     [ code |-> <<"e","o">>, name |-> <<"E","s","p","e","r","a","n","t","o">> ],
     [ code |-> <<"e","t">>, name |-> <<"E","s","t","o","n","i","a","n">> ],
     [ code |-> <<"t","l">>, name |-> <<"F","i","l","i","p","i","n","o">> ],
     [ code |-> <<"f","i">>, name |-> <<"F","i","n","n","i","s","h">> ],
     [ code |-> <<"f","r">>, name |-> <<"F","r","e","n","c","h">> ],
     [ code |-> <<"f","y">>, name |-> <<"F","r","i","s","i","a","n">> ],
     [ code |-> <<"g","l">>, name |-> <<"G","a","l","i","c","i","a","n">> ],
     [ code |-> <<"k","a">>, name |-> <<"G","e","o","r","g","i","a","n">> ],
     [ code |-> <<"d","e">>, name |-> <<"G","e","r","m","a","n">> ],
     [ code |-> <<"e","l">>, name |-> <<"G","r","e","e","k">> ],
     [ code |-> <<"g","u">>, name |-> <<"G","u","j","a","r","a","t","i">> ],
     [ code |-> <<"h","t">>, name |-> <<"H","a","i","t","i","a","n"," ","C","r","e","o","l","e">> ],
     [ code |-> <<"h","a">>, name |-> <<"H","a","u","s","a">> ],
     [ code |-> <<"h","a","w">>, name |-> <<"H","a","w","a","i","i","a","n">> ],
     [ code |-> <<"h","e">>, name |-> <<"H","e","b","r","e","w">> ],
     [ code |-> <<"h","i">>, name |-> <<"H","i","n","d","i">> ],
     [ code |-> <<"h","m","n">>, name |-> <<"H","m","o","n","g">> ],
     [ code |-> <<"h","u">>, name |-> <<"H","u","n","g","a","r","i","a","n">> ],
     [ code |-> <<"i","s">>, name |-> <<"I","c","e","l","a","n","d","i","c">> ],
     [ code |-> <<"i","g">>, name |-> <<"I","g","b","o">> ],
     [ code |-> <<"i","d">>, name |-> <<"I","n","d","o","n","e","s","i","a","n">> ],
     [ code |-> <<"g","a">>, name |-> <<"I","r","i","s","h">> ],
     [ code |-> <<"i","t">>, name |-> <<"I","t","a","l","i","a","n">> ],
     [ code |-> <<"j","a">>, name |-> <<"J","a","p","a","n","e","s","e">> ],
     [ code |-> <<"j","w">>, name |-> <<"J","a","v","a","n","e","s","e">> ],
     [ code |-> <<"k","n">>, name |-> <<"K","a","n","n","a","d","a">> ],
     [ code |-> <<"k","k">>, name |-> <<"K","a","z","a","k","h">> ],
     [ code |-> <<"k","m">>, name |-> <<"K","h","m","e","r">> ],
     [ code |-> <<"r","w">>, name |-> <<"K","i","n","y","a","r","w","a","n","d","a">> ],
     [ code |-> <<"k","o">>, name |-> <<"K","o","r","e","a","n">> ],
     [ code |-> <<"k","u">>, name |-> <<"K","u","r","d","i","s","h"," ","(","K","u","r","m","a","n","j","i",")">> ],
     [ code |-> <<"k","y">>, name |-> <<"K","y","r","g","y","z">> ],
     [ code |-> <<"l","o">>, name |-> <<"L","a","o">> ],
     [ code |-> <<"l","a">>, name |-> <<"L","a","t","i","n">> ],
     [ code |-> <<"l","v">>, name |-> <<"L","a","t","v","i","a","n">> ],
     [ code |-> <<"l","t">>, name |-> <<"L","i","t","h","u","a","n","i","a","n">> ],
     [ code |-> <<"l","b">>, name |-> <<"L","u","x","e","m","b","o","u","r","g","i","s","h">> ],
     [ code |-> <<"m","k">>, name |-> <<"M","a","c","e","d","o","n","i","a","n">> ],
     [ code |-> <<"m","g">>, name |-> <<"M","a","l","a","g","a","s","y">> ],
     [ code |-> <<"m","s">>, name |-> <<"M","a","l","a","y">> ],
     [ code |-> <<"m","l">>, name |-> <<"M","a","l","a","y","a","l","a","m">> ],
     [ code |-> <<"m","t">>, name |-> <<"M","a","l","t","e","s","e">> ],
     [ code |-> <<"m","i">>, name |-> <<"M","a","o","r","i">> ],
     [ code |-> <<"m","r">>, name |-> <<"M","a","r","a","t","h","i">> ],
     [ code |-> <<"m","n">>, name |-> <<"M","o","n","g","o","l","i","a","n">> ],
     [ code |-> <<"m","y">>, name |-> <<"M","y","a","n","m","a","r"," ","(","B","u","r","m","e","s","e",")">> ],
     [ code |-> <<"n","e">>, name |-> <<"N","e","p","a","l","i">> ],
     [ code |-> <<"n","o">>, name |-> <<"N","o","r","w","e","g","i","a","n">> ],
     [ code |-> <<"o","r">>, name |-> <<"O","d","i","a"," ","(","O","r","i","y","a",")">> ],
     [ code |-> <<"p","s">>, name |-> <<"P","a","s","h","t","o">> ],
     [ code |-> <<"f","a">>, name |-> <<"P","e","r","s","i","a","n">> ],
     [ code |-> <<"p","l">>, name |-> <<"P","o","l","i","s","h">> ],
     [ code |-> <<"p","t">>, name |-> <<"P","o","r","t","u","g","u","e","s","e">> ],
     [ code |-> <<"p","a">>, name |-> <<"P","u","n","j","a","b","i">> ],
     [ code |-> <<"r","o">>, name |-> <<"R","o","m","a","n","i","a","n">> ],
     [ code |-> <<"r","u">>, name |-> <<"R","u","s","s","i","a","n">> ],
     [ code |-> <<"s","m">>, name |-> <<"S","a","m","o","a","n">> ],
     [ code |-> <<"g","d">>, name |-> <<"S","c","o","t","s"," ","G","a","e","l","i","c">> ],
     [ code |-> <<"s","r">>, name |-> <<"S","e","r","b","i","a","n">> ],
     [ code |-> <<"s","t">>, name |-> <<"S","e","s","o","t","h","o">> ],
     [ code |-> <<"s","n">>, name |-> <<"S","h","o","n","a">> ],
     [ code |-> <<"s","d">>, name |-> <<"S","i","n","d","h","i">> ],
     [ code |-> <<"s","i">>, name |-> <<"S","i","n","h","a","l","a">> ],
     [ code |-> <<"s","k">>, name |-> <<"S","l","o","v","a","k">> ],
     [ code |-> <<"s","l">>, name |-> <<"S","l","o","v","e","n","i","a","n">> ],
     [ code |-> <<"s","o">>, name |-> <<"S","o","m","a","l","i">> ],
     [ code |-> <<"e","s">>, name |-> <<"S","p","a","n","i","s","h">> ],
     [ code |-> <<"s","u">>, name |-> <<"S","u","n","d","a","n","e","s","e">> ],
     [ code |-> <<"s","w">>, name |-> <<"S","w","a","h","i","l","i">> ],
     [ code |-> <<"s","v">>, name |-> <<"S","w","e","d","i","s","h">> ],
     [ code |-> <<"t","g">>, name |-> <<"T","a","j","i","k">> ],
     [ code |-> <<"t","a">>, name |-> <<"T","a","m","i","l">> ],
     [ code |-> <<"t","t">>, name |-> <<"T","a","t","a","r">> ],
     [ code |-> <<"t","e">>, name |-> <<"T","e","l","u","g","u">> ],
     [ code |-> <<"t","h">>, name |-> <<"T","h","a","i">> ],
     [ code |-> <<"t","r">>, name |-> <<"T","u","r","k","i","s","h">> ],
     [ code |-> <<"t","k">>, name |-> <<"T","u","r","k","m","e","n">> ],
     [ code |-> <<"u","k">>, name |-> <<"U","k","r","a","i","n","i","a","n">> ],
     [ code |-> <<"u","r">>, name |-> <<"U","r","d","u">> ],
     [ code |-> <<"u","g">>, name |-> <<"U","y","g","h","u","r">> ],
     [ code |-> <<"u","z">>, name |-> <<"U","z","b","e","k">> ],
     [ code |-> <<"v","i">>, name |-> <<"V","i","e","t","n","a","m","e","s","e">> ],
     [ code |-> <<"c","y">>, name |-> <<"W","e","l","s","h">> ],
     [ code |-> <<"x","h">>, name |-> <<"X","h","o","s","a">> ],
     [ code |-> <<"y","i">>, name |-> <<"Y","i","d","d","i","s","h">> ],
     [ code |-> <<"y","o">>, name |-> <<"Y","o","r","u","b","a">> ],
     [ code |-> <<"z","u">>, name |-> <<"Z","u","l","u">> ]
  >>

\* LANG_MAP[key]: the name of the entry with that code, << >> (undefined) when
\* there is none.
LangMapGet(key) ==
  IF \E i \in 1..Len(LANG_MAP) : LANG_MAP[i].code = key
  THEN LANG_MAP[CHOOSE i \in 1..Len(LANG_MAP) : LANG_MAP[i].code = key].name
  ELSE << >>

Str_UNKNOWN == << "U", "N", "K", "N", "O", "W", "N" >>

Str_unknown == << "u", "n", "k", "n", "o", "w", "n" >>

Str_en == << "e", "n" >>

Str_ru == << "r", "u" >>

\* langName(iso): LANG_MAP[key] || key.toUpperCase() || "UNKNOWN".
langName(iso) ==
  LET key == ToLowerCase(iso)
  IN  IF LangMapGet(key) # << >> THEN LangMapGet(key)
      ELSE IF ToUpperCase(key) # << >> THEN ToUpperCase(key)
      ELSE Str_UNKNOWN

\* ---------------------------------------------------------------------------
\* code_<language>: normalizeQueryLoose, buildLangCandidates, bestLangMatch
\* ---------------------------------------------------------------------------

\* s.replace(/[X]+/g, " "): every maximal run of characters of X becomes one
\* space.
RECURSIVE ReplaceRuns(_, _)
ReplaceRuns(s, X) ==
  IF Len(s) = 0 THEN << >>
  ELSE IF s[1] \in X
  THEN LET r == ReplaceRuns(Tail(s), X)
       IN  IF Len(s) >= 2 /\ s[2] \in X THEN r ELSE << " " >> \o r
  ELSE << s[1] >> \o ReplaceRuns(Tail(s), X)

\* s.replace(/[X]/g, " "): every character of X becomes a space.
ReplaceEach(s, X) == [ i \in 1..Len(s) |-> IF s[i] \in X THEN " " ELSE s[i] ]

\* A normalization without the step for parentheses: the property of C29
\* tells it from normalizeQueryLoose.
normalizeQueryLoose_KeepParens(s) ==
  Trim(ReplaceRuns(ReplaceRuns(ToLowerCase(s), { "_", "-" }), WhiteSpace))

\* String(s || "").toLowerCase().replace(/[_\-]+/g, " ")
\*   .replace(/[()]/g, " ").replace(/\s+/g, " ").trim()
normalizeQueryLoose(s) ==
  Trim(ReplaceRuns(
         ReplaceEach(ReplaceRuns(ToLowerCase(s), { "_", "-" }), { "(", ")" }),
         WhiteSpace))

\* name.replace(/\s*\([^)]*\)\s*/g, "").trim(): the name without its
\* parenthesized part and the white space around it.
RECURSIVE StripParens(_)
StripParens(s) ==
  LET o == IndexOf(s, "(")
      k == IF o = 0 THEN 0 ELSE IndexOf(Slice(s, o), ")")
  IN  IF o = 0 \/ k = 0 THEN s
      ELSE LET before == SubSeq(s, 1, o - 1)
               after  == Slice(s, o + k)
               nb     == { i \in 0..Len(before) :
                             \A j \in (i + 1)..Len(before) :
                               before[j] \in WhiteSpace }
               na     == { i \in 0..Len(after) :
                             \A j \in 1..i : after[j] \in WhiteSpace }
               cutb   == CHOOSE i \in nb : \A j \in nb : i <= j
               cuta   == CHOOSE i \in na : \A j \in na : j <= i
           IN  SubSeq(before, 1, cutb) \o StripParens(Slice(after, cuta))

ExtraAliases(code) ==
  IF code = << "z","h","_","c","n" >> THEN
    { << "s","i","m","p","l","i","f","i","e","d"," ","c","h","i","n","e","s","e" >>,
      << "c","h","i","n","e","s","e"," ","s","i","m","p","l","i","f","i","e","d" >> }
  ELSE IF code = << "z","h","_","t","w" >> THEN
    { << "t","r","a","d","i","t","i","o","n","a","l"," ","c","h","i","n","e","s","e" >>,
      << "c","h","i","n","e","s","e"," ","t","r","a","d","i","t","i","o","n","a","l" >> }
  ELSE IF code = << "g","a" >> THEN
    { << "i","r","i","s","h"," ","g","a","e","l","i","c" >> }
  ELSE IF code = << "g","d" >> THEN
    { << "s","c","o","t","t","i","s","h"," ","g","a","e","l","i","c" >>,
      << "s","c","o","t","s"," ","g","a","e","l","i","c" >> }
  ELSE IF code = << "j","w" >> THEN { << "j","a","v","a","n","e","s","e" >> }
  ELSE IF code = << "m","y" >> THEN { << "b","u","r","m","e","s","e" >> }
  ELSE IF code = << "t","l" >> THEN { << "t","a","g","a","l","o","g" >> }
  ELSE IF code = << "p","t" >> THEN
    { << "b","r","a","z","i","l","i","a","n"," ","p","o","r","t","u","g","u","e","s","e" >>,
      << "b","r","a","s","i","l","i","a","n","i","s","c","h" >> }
  ELSE IF code = << "h","e" >> THEN { << "i","v","r","i","t" >> }
  ELSE { }

\* A candidate list whose aliases leave out the names: the property of C23
\* tells it from buildLangCandidates.
buildLangCandidates_CodesOnly ==
  [ i \in 1..Len(LANG_MAP) |->
      [ code    |-> LANG_MAP[i].code,
        name    |-> LANG_MAP[i].name,
        aliases |-> { ToLowerCase(LANG_MAP[i].code) }
                    \cup ExtraAliases(LANG_MAP[i].code) ] ]

\* buildLangCandidates(): one candidate per entry, in catalog order.
buildLangCandidates ==
  [ i \in 1..Len(LANG_MAP) |->
      [ code    |-> LANG_MAP[i].code,
        name    |-> LANG_MAP[i].name,
        aliases |-> { ToLowerCase(LANG_MAP[i].name),
                      ToLowerCase(Trim(StripParens(LANG_MAP[i].name))),
                      ToLowerCase(LANG_MAP[i].code) }
                    \cup ExtraAliases(LANG_MAP[i].code) ] ]

\* One row of the longest-common-subsequence table of a and b: prev is the row
\* of the previous character of a, acc the part of this row computed so far
\* (both start with the column of the empty prefix of b).
RECURSIVE LcsRow(_, _, _, _)
LcsRow(prev, c, b, acc) ==
  LET j == Len(acc)
  IN  IF j > Len(b) THEN acc
      ELSE LET v == IF c = b[j] THEN prev[j] + 1
                    ELSE IF prev[j + 1] >= acc[j] THEN prev[j + 1] ELSE acc[j]
           IN  LcsRow(prev, c, b, Append(acc, v))

RECURSIVE LcsRows(_, _, _)
LcsRows(a, b, prev) ==
  IF Len(a) = 0 THEN prev[Len(b) + 1]
  ELSE LcsRows(Tail(a), b, LcsRow(prev, a[1], b, << 0 >>))

Lcs(a, b) == LcsRows(a, b, [ j \in 1..(Len(b) + 1) |-> 0 ])

\* full_process of fuzzball, applied by fuzz.ratio to both strings: characters
\* that are neither letters nor digits become spaces, lower case, white space
\* collapsed and trimmed.
FullProcess(s) ==
  Trim(ReplaceRuns(
         ReplaceEach(ToLowerCase(s),
                     { "_", "-", "(", ")", ".", ":", "[", "]" }),
         WhiteSpace))

\* fuzz.ratio(q, a): round(100 * (lensum - distance) / lensum) with the edit
\* distance that counts a substitution as 2, which is lensum - 2 * Lcs; 0 when
\* either processed string is empty.
FuzzRatio(q, a) ==
  LET x == FullProcess(q)
      y == FullProcess(a)
      lensum == Len(x) + Len(y)
  IN  IF Len(x) = 0 \/ Len(y) = 0 THEN 0
      ELSE (400 * Lcs(x, y) + lensum) \div (2 * lensum)

NoMatch == [ code |-> << >>, name |-> << >>, score |-> -1 ]

MaxOf(S) == CHOOSE v \in S : \A w \in S : w <= v

\* The score threshold of bestLangMatch.
MatchThreshold == 55

\* The candidate's score: the maximum of fuzz.ratio over its aliases.
CandidateScore(q, c) == MaxOf({ FuzzRatio(q, a) : a \in c.aliases })

\* A threshold test with > in the place of >=: the property of C24 tells it
\* from BestFuzzy.
BestFuzzy_AboveThreshold(cands, score, top) ==
  LET first == CHOOSE i \in 1..Len(cands) :
                 score[i] = top /\ \A j \in 1..(i - 1) : score[j] < top
  IN  IF top > MatchThreshold
      THEN [ code |-> cands[first].code, name |-> cands[first].name,
             score |-> top ]
      ELSE NoMatch

\* The fuzzy pass over the scores: `score > best.score` keeps the first
\* candidate that reaches the top score.
BestFuzzy(cands, score, top) ==
  LET first == CHOOSE i \in 1..Len(cands) :
                 score[i] = top /\ \A j \in 1..(i - 1) : score[j] < top
  IN  IF top >= MatchThreshold
      THEN [ code |-> cands[first].code, name |-> cands[first].name,
             score |-> top ]
      ELSE NoMatch

\* A fuzzy pass with `score >= best.score`, which keeps the last candidate
\* that reaches the top score: the property of C28 tells it from FuzzyPass.
FuzzyPass_LastWins(cands, score) ==
  LET top  == MaxOf({ score[i] : i \in 1..Len(cands) })
      last == CHOOSE i \in 1..Len(cands) :
                score[i] = top /\ \A j \in (i + 1)..Len(cands) : score[j] < top
  IN  IF top >= MatchThreshold
      THEN [ code |-> cands[last].code, name |-> cands[last].name,
             score |-> top ]
      ELSE NoMatch

\* The fuzzy loop of bestLangMatch and its threshold.
FuzzyPass(cands, score) ==
  BestFuzzy(cands, score, MaxOf({ score[i] : i \in 1..Len(cands) }))

\* A fast path that keeps the last candidate with an alias equal to q: the
\* property of C27 tells it from ExactPass.
ExactPass_LastHit(q, cands, exact) ==
  IF exact # {}
  THEN LET e == CHOOSE i \in exact : \A j \in exact : j <= i
       IN  [ code |-> cands[e].code, name |-> cands[e].name, score |-> 100 ]
  ELSE FuzzyPass(cands, [ i \in 1..Len(cands) |-> CandidateScore(q, cands[i]) ])

\* The fast path: the first candidate with an alias equal to q.
ExactPass(q, cands, exact) ==
  IF exact # {}
  THEN LET e == CHOOSE i \in exact : \A j \in exact : i <= j
       IN  [ code |-> cands[e].code, name |-> cands[e].name, score |-> 100 ]
  ELSE FuzzyPass(cands, [ i \in 1..Len(cands) |-> CandidateScore(q, cands[i]) ])

MatchNormalized(q, cands) ==
  IF q = << >> THEN NoMatch
  ELSE ExactPass(q, cands, { i \in 1..Len(cands) : q \in cands[i].aliases })

\* bestLangMatch(query): NoMatch stands for null.
bestLangMatch(query) ==
  MatchNormalized(normalizeQueryLoose(query), buildLangCandidates)

\* ---------------------------------------------------------------------------
\* Constants and literals of the program
\* ---------------------------------------------------------------------------

AUTO_TRANSLATE == TRUE

AUTO_TRANSLATE_TARGET == Str_en

PREFER_RU_FOR_CYRILLIC == TRUE

\* CYRILLIC_REGEX.test(text)
CYRILLIC_REGEX(text) == \E i \in 1..Len(text) : text[i] \in CyrillicChars

Str_said ==
  << " ", "s", "a", "i", "d", " ", "-", " " >>

Str_from ==
  << " ", "-", " ", "(", "f", "r", "o", "m", " " >>

Str_close ==
  << ")" >>

Str_NoRecent ==
  << "N", "o", " ", "r", "e", "c", "e", "n", "t", " ", "m", "e", "s", "s",
  "a", "g", "e", " ", "t", "o", " ", "t", "r", "a", "n", "s", "l", "a", "t",
  "e", "." >>

Str_For ==
  << "F", "o", "r", " " >>

Str_use ==
  << " ", "u", "s", "e", " ", "t", "m", "_" >>

Str_NoClose ==
  << "N", "o", " ", "c", "l", "o", "s", "e", " ", "l", "a", "n", "g", "u",
  "a", "g", "e", " ", "m", "a", "t", "c", "h", " ", "f", "o", "r", " ", "\""
  >>

Str_Try ==
  << "\"", ".", " ", "T", "r", "y", " ", "t", "m", "_", "e", "n", ",", " ",
  "t", "m", "_", "d", "e", ",", " ", "t", "m", "_", "f", "r", ",", " ", "t",
  "m", "_", "e", "s", ",", " ", "t", "m", "_", "r", "u", ",", " ", "t", "m",
  "_", "p", "t", ".", ".", "." >>

\* ---------------------------------------------------------------------------
\* The cfg sink
\* ---------------------------------------------------------------------------

\* escapeForCfg(text): a backslash before every backslash and double quote.
RECURSIVE escapeForCfg(_)
escapeForCfg(text) ==
  IF Len(text) = 0 THEN << >>
  ELSE (IF text[1] \in { "\\", "\"" } THEN << "\\", text[1] >> ELSE << text[1] >>)
       \o escapeForCfg(Tail(text))

\* The command line writeChatCfg puts into chat_reader.cfg.
CfgCommand(message, team) ==
  [ written |-> TRUE,
    cmd     |-> IF team THEN "say_team" ELSE "say",
    safe    |-> escapeForCfg(message) ]

\* chat_reader.cfg before the program has written it.
NoCfg == [ written |-> FALSE, cmd |-> "", safe |-> << >> ]

\* ---------------------------------------------------------------------------
\* smartTranslate and the translation capability
\* ---------------------------------------------------------------------------

Str_auto == << "a", "u", "t", "o" >>

\* The text a successful call translate(text, {from, to}) returns.  The service
\* is outside the program; its answer is kept symbolic, tagged with the
\* arguments of the call (from = << >> is automatic detection).
TranslateText(text, from, to) ==
  << "{" >> \o (IF from = << >> THEN Str_auto ELSE from) \o << ">" >> \o to
  \o << "|" >> \o text \o << "}" >>

\* The source languages the service may report for a call.
DetectedIsos == { Str_en, Str_ru }

\* A result of smartTranslate: res.text, res.from.language.iso and
\* res.__forcedFrom (<< >> when unset).
NoRes == [ text |-> << >>, iso |-> << >>, forcedFrom |-> << >> ]

\* A smartTranslate whose stub loses the text: the property of C13 tells it
\* from DegradedResult.
DegradedResult_NoText(text) ==
  [ text |-> << >>, iso |-> Str_unknown, forcedFrom |-> << >> ]

\* The stub smartTranslate returns when the first call throws.
DegradedResult(text) ==
  [ text |-> text, iso |-> Str_unknown, forcedFrom |-> << >> ]

\* The result of the first call when it succeeds.
FirstResult(text, to, iso) ==
  [ text |-> TranslateText(text, << >>, to), iso |-> iso, forcedFrom |-> << >> ]

\* The result of the second call (from: "ru") when it succeeds.
ForcedResult(text, to, iso) ==
  [ text |-> TranslateText(text, Str_ru, to), iso |-> iso, forcedFrom |-> Str_ru ]

\* A smartTranslate that forces "ru" without looking at the text: the property
\* of C14 tells it from shouldForceRu.
shouldForceRu_AnyText(text, iso) ==
  PREFER_RU_FOR_CYRILLIC /\ ToLowerCase(iso) # Str_ru

shouldForceRu(text, iso) ==
  PREFER_RU_FOR_CYRILLIC /\ CYRILLIC_REGEX(text) /\ ToLowerCase(iso) # Str_ru

\* (res.__forcedFrom || res.from?.language?.iso || "unknown").toLowerCase()
FromIso(res) ==
  ToLowerCase(IF res.forcedFrom # << >> THEN res.forcedFrom
              ELSE IF res.iso # << >> THEN res.iso
              ELSE Str_unknown)

originalLangReadable(res) == langName(FromIso(res))

\* ---------------------------------------------------------------------------
\* The pieces of the handlers
\* ---------------------------------------------------------------------------

\* lastForeignMsg = null
NoMsg == [ set |-> FALSE, player |-> << >>, message |-> << >>, team |-> << >> ]

\* A faulty update that keeps the first message it stored: the property of C1
\* tells it from TrackLast.
TrackLast_KeepsFirst(mem, sender, message, team) ==
  IF ~mem.set /\ ~ReCommand(message) /\ ~ReDots(message)
  THEN [ set |-> TRUE, player |-> sender, message |-> message, team |-> team ]
  ELSE mem

\* A faulty update without the command filter: the property of C2 tells it
\* from TrackLast.
TrackLast_StoresCommands(mem, sender, message, team) ==
  IF ~ReDots(message)
  THEN [ set |-> TRUE, player |-> sender, message |-> message, team |-> team ]
  ELSE mem

\* The update of lastForeignMsg in handleLine.
TrackLast(mem, sender, message, team) ==
  IF ~ReCommand(message) /\ ~ReDots(message)
  THEN [ set |-> TRUE, player |-> sender, message |-> message, team |-> team ]
  ELSE mem

\* const isTeam = team === "CT" || team === "T"
IsTeam(team) == team = << "C", "T" >> \/ team = << "T" >>

\* A handleTl that never answers with the notice: the property of C8 tells it
\* from TlHasNothing.
TlHasNothing_Never(mem) == FALSE

\* handleTl: if (!lastForeignMsg)
TlHasNothing(mem) == ~mem.set

\* handleTl: parts[1]?.toLowerCase() || "en"
TlTarget(message) ==
  LET parts == SplitSpace(message)
  IN  IF Len(parts) >= 2 /\ parts[2] # << >> THEN ToLowerCase(parts[2])
      ELSE Str_en

\* A handleTl that replies on the channel kind of the remembered message: the
\* property of C9 tells it from TlReplyTeam.
TlReplyTeam_Remembered(isTeam, mem) == IsTeam(mem.team)

\* handleTl: the team flag of its reply.
TlReplyTeam(isTeam, mem) == isTeam

\* handleTm: cmd.slice(3).toLowerCase()
TmLang(message) == ToLowerCase(Slice(SplitSpace(message)[1], 3))

\* A handleTm that translates the whole message: the property of C12 tells it
\* from TmText.
TmText_WholeMessage(message) == Trim(message)

\* handleTm: rest.join(" ").trim()
TmText(message) == Trim(JoinSpace(Tail(SplitSpace(message))))

\* `${sender} said - ${translated} - (from ${originalLang})`
Output(sender, res) ==
  sender \o Str_said \o res.text \o Str_from \o originalLangReadable(res)
  \o Str_close

\* handleCodeLang: m[1].trim()
CodeQuery(message) == Trim(ReCodeGroup(message))

\* A handleCodeLang that answers every query with the no-match hint: the
\* property of C10 tells it from CodeReply.
CodeReply_HintOnly(query) == Str_NoClose \o query \o Str_Try

\* handleCodeLang: the reply for a non-empty query.
CodeReply(query) ==
  LET match == bestLangMatch(query)
  IN  IF match # NoMatch
      THEN Str_For \o match.name \o Str_use \o match.code
      ELSE Str_NoClose \o query \o Str_Try

\* autoTranslateToConsole: the guards before the call of smartTranslate.
AutoSkips(message) ==
  \/ ~AUTO_TRANSLATE
  \/ message = << >>
  \/ ReCommand(message)
  \/ ReDots(message)

\* ---------------------------------------------------------------------------
\* The lines console.log may deliver
\* ---------------------------------------------------------------------------

\* The number of lines appended to console.log in one run of the model.
MaxLines == 2

Ch_CT == << "C", "T" >>

Ch_T == << "T" >>

Ch_ALL == << "A", "L", "L" >>

Al == << "A", "l" >>

Bo == << "B", "o" >>

Msg_hi == << "h", "i" >>

Msg_cyr == << "U041F", "U0440", "U0438" >>

ChatLine(ch, sender, msg) ==
  << "[" >> \o ch \o << "]", " " >> \o sender \o << ":", " " >> \o msg

Lines ==
  { << "1", ":", "2", " " >> \o ChatLine(Ch_CT, Al, Msg_hi),
    ChatLine(Ch_ALL, Bo, Msg_cyr),
    ChatLine(Ch_T, Al, << "_", "t", "l" >>),
    ChatLine(Ch_CT, Bo, << "_", "T", "L", " ", "D", "E" >>),
    ChatLine(Ch_ALL, Al, << "_", "t", "l", " ", " ", "d", "e" >>),
    ChatLine(Ch_CT, Al, << "c", "o", "d", "e", " ", "f", "r", "e", "n", "c", "h" >>),
    ChatLine(Ch_ALL, Bo, << "C", "o", "d", "e", "_", "F", "R" >>),
    ChatLine(Ch_T, Bo, << "c", "o", "d", "e", "_", "_" >>),
    ChatLine(Ch_T, Al, << "c", "o", "d", "e", "_" >>),
    ChatLine(Ch_T, Bo, << "T", "M", "_", "D", "E", " " >> \o Msg_hi),
    ChatLine(Ch_ALL, Bo, << "t", "m", "_", " " >> \o Msg_hi),
    ChatLine(Ch_CT, Al, << "t", "m", "_", "d", "e" >>),
    ChatLine(Ch_T, Al, << " ", " " >>),
    ChatLine(Ch_CT, Bo, << ".", ".", "." >>),
    ChatLine(Ch_T, << " ", "B", "o", " " >>, << "a", ":", " ", "b", " " >>),
    ChatLine(<< "X" >>, Al, Msg_hi),
    << "[", "C", "T", "]", " ", "A", "l", ":", "h", "i" >>,
    << "h", "e", "l", "l", "o" >> }

\* handleLine: the locals it takes from the capture groups g.
LineLocals(g) ==
  [ matched |-> TRUE, team |-> g.team, sender |-> Trim(g.player),
    message |-> Trim(g.messageRaw), isTeam |-> IsTeam(g.team) ]

\* handleLine: the match and the locals.
LineParse(l) ==
  IF ~LineMatches(l)
  THEN [ matched |-> FALSE, team |-> << >>, sender |-> << >>,
         message |-> << >>, isTeam |-> FALSE ]
  ELSE LineLocals(LineGroups(l))

\* ---------------------------------------------------------------------------
\* State
\* ---------------------------------------------------------------------------

VARIABLES
  ev,             \* one record per call of handleLine: its locals, its position
                  \* and what it has done so far
  lastForeignMsg, \* the module-level memory of the last normal message
  microtasks,     \* the calls of handleLine whose await continuation is queued
  emitting,       \* readline is still emitting the lines of the current chunk
  chatCfg,        \* the content of chat_reader.cfg
  timers,         \* the pending setTimeout(pressBindKey, 150), oldest first
  sinkOk,         \* fs.writeFileSync on chat_reader.cfg succeeds
  lookup          \* the last direct call of bestLangMatch: its argument, its
                  \* local q and what it returned

vars ==
  << ev, lastForeignMsg, microtasks, emitting, chatCfg, timers, sinkOk, lookup >>

\* No direct call of bestLangMatch yet.
NoLookup == [ query |-> << >>, q |-> << >>, match |-> NoMatch ]

NoReq == [ text |-> << >>, to |-> << >>, from |-> << >> ]

\* The record of a call of handleLine for the line l with the locals p.
\* Beside the line, the locals (team, sender, message, isTeam) and the
\* position pc it keeps the handler h that awaits smartTranslate, the call req
\* in flight, the first result res, and the history of the call: the handlers
\* it ran, its calls of translate and how each ended, the result smartTranslate
\* returned, its completed calls of writeChatCfg, what chat_reader.cfg held
\* when its timer fired, the translation lines it printed, and whether its
\* promise was rejected ("Line handling error").
NewCall(l, p) ==
  [ line |-> l, matched |-> p.matched, team |-> p.team, sender |-> p.sender,
    message |-> p.message, isTeam |-> p.isTeam,
    pc |-> "done", h |-> "", req |-> NoReq, res |-> NoRes,
    ran |-> << >>, calls |-> << >>, ends |-> << >>, got |-> << >>,
    wrote |-> << >>, pressed |-> << >>, printed |-> << >>, error |-> FALSE ]

\* The record of a call of handleLine that has returned.
Finished(r) ==
  [ r EXCEPT !.pc = "done", !.h = "", !.req = NoReq, !.res = NoRes ]

\* r after handler `by` called writeChatCfg({ message, team }).
Wrote(r, by, message, team) ==
  [ r EXCEPT !.wrote = Append(r.wrote, [ by |-> by, message |-> message,
                                         team |-> team ]) ]

\* r after smartTranslate, awaited by handler h, called translate for req.
Called(r, h, pc, req) ==
  [ r EXCEPT !.pc = pc, !.h = h, !.req = req, !.calls = Append(r.calls, req) ]

Ran(r, handlers) == [ r EXCEPT !.ran = r.ran \o handlers ]

\* A call of translate that threw.
Threw == [ ok |-> FALSE, text |-> << >>, iso |-> << >> ]

\* A call of translate that returned res.
Answered(res) == [ ok |-> TRUE, text |-> res.text, iso |-> res.iso ]

\* r after its call of translate in flight ended with end.
Ended(r, end) == [ r EXCEPT !.ends = Append(r.ends, end) ]

\* r after smartTranslate returned res to the handler.
Got(r, res) == [ r EXCEPT !.got = << res >> ]

\* r after handler `by` called writeChatCfg({ message, team }): the write is
\* recorded when it completes, otherwise the exception of fs.writeFileSync
\* rejects the promise of handleLine.
Replied(r, by, message, team) ==
  IF sinkOk THEN Wrote(r, by, message, team) ELSE [ r EXCEPT !.error = TRUE ]

\* chat_reader.cfg after a write that failed once the file was opened.
TruncatedCfg == [ written |-> TRUE, cmd |-> "", safe |-> << >> ]

Init ==
  /\ ev = << >>
  /\ lastForeignMsg = NoMsg
  /\ microtasks = << >>
  /\ emitting = FALSE
  /\ chatCfg = NoCfg
  /\ timers = << >>
  /\ sinkOk = TRUE
  /\ lookup = NoLookup

\* A reply that sets the timer although the write threw: the property of C20
\* tells it from Reply.
Reply_TriggersAnyway(e, message, team) ==
  /\ timers' = Append(timers, e)
  /\ IF sinkOk
     THEN chatCfg' = CfgCommand(message, team)
     ELSE chatCfg' \in { chatCfg, TruncatedCfg }

\* writeChatCfg({ message, team }) followed by setTimeout(pressBindKey, 150)
\* in the handling of line e.  When fs.writeFileSync throws, the file is left
\* as it was or truncated, and setTimeout is not reached.
Reply(e, message, team) ==
  IF sinkOk
  THEN /\ chatCfg' = CfgCommand(message, team)
       /\ timers' = Append(timers, e)
  ELSE /\ chatCfg' \in { chatCfg, TruncatedCfg }
       /\ UNCHANGED timers

NoReply == UNCHANGED << chatCfg, timers >>

\* ---------------------------------------------------------------------------
\* handleLine up to its first await: the match, the memory update and the
\* synchronous part of handleTl
\* ---------------------------------------------------------------------------

HandleLine(e, l, p) ==
  IF ~p.matched
  THEN /\ ev' = Append(ev, NewCall(l, p))
       /\ UNCHANGED << lastForeignMsg, microtasks >>
       /\ NoReply
  ELSE LET mem == TrackLast(lastForeignMsg, p.sender, p.message, p.team)
           r   == Ran(NewCall(l, p), << "handleTl" >>)
       IN  /\ lastForeignMsg' = mem
           /\ IF ~ReTl(p.message)
              THEN \* handleTl returns false; handleLine awaits it
                   /\ ev' = Append(ev, [ r EXCEPT !.pc = "afterTl" ])
                   /\ microtasks' = Append(microtasks, e)
                   /\ NoReply
              ELSE IF TlHasNothing(mem)
              THEN \* the notice; handleTl returns true
                   /\ ev' = Append(ev, Replied(r, "handleTl", Str_NoRecent,
                                               TlReplyTeam(p.isTeam, mem)))
                   /\ Reply(e, Str_NoRecent, TlReplyTeam(p.isTeam, mem))
                   /\ UNCHANGED microtasks
              ELSE \* smartTranslate(lastForeignMsg.message, target)
                   /\ ev' = Append(ev, Called(r, "handleTl", "first",
                                              [ text |-> mem.message,
                                                to |-> TlTarget(p.message),
                                                from |-> << >> ]))
                   /\ UNCHANGED microtasks
                   /\ NoReply

\* A listener without the .catch: the first rejected promise of handleLine is
\* an unhandled rejection, which ends the process.  The property of C22 tells
\* it from Listening.
Listening_UntilRejection == \A e \in 1..Len(ev) : ~ev[e].error

\* rl.on("line", ...) of start: the promise of handleLine gets a .catch that
\* logs "Line handling error:", so no outcome of a call stops the process or
\* removes the listener.
Listening == TRUE

\* A line appended to console.log can be emitted: a new chunk starts only when
\* no continuation is queued, the lines of one chunk follow each other without
\* a break.
LineReady ==
  /\ Listening
  /\ Len(ev) < MaxLines
  /\ (microtasks = << >> \/ emitting)

\* readline emits the line l.
Line(l) ==
  /\ LineReady
  /\ emitting' = TRUE
  /\ UNCHANGED << sinkOk, lookup >>
  /\ HandleLine(Len(ev) + 1, l, LineParse(l))

\* ---------------------------------------------------------------------------
\* handleLine after `await handleTl`: handleCodeLang, then handleTm up to its
\* await
\* ---------------------------------------------------------------------------

ContinueAfterTl ==
  /\ microtasks # << >>
  /\ ev[Head(microtasks)].pc = "afterTl"
  /\ emitting' = FALSE
  /\ UNCHANGED << lastForeignMsg, sinkOk, lookup >>
  /\ LET e == Head(microtasks)
         m == ev[e].message
     IN  IF ReCode(m)
         THEN \* handleCodeLang returns true
              LET r == Finished(Ran(ev[e], << "handleCodeLang" >>))
              IN  /\ microtasks' = Tail(microtasks)
                  /\ IF CodeQuery(m) = << >>
                     THEN /\ ev' = [ ev EXCEPT ![e] = r ]
                          /\ NoReply
                     ELSE LET reply == CodeReply(CodeQuery(m))
                          IN  /\ ev' = [ ev EXCEPT ![e] =
                                           Replied(r, "handleCodeLang", reply,
                                                   r.isTeam) ]
                              /\ Reply(e, reply, r.isTeam)
         ELSE LET r == Ran(ev[e], << "handleCodeLang", "handleTm" >>)
              IN  /\ NoReply
                  /\ IF ~ReTm(m)
                     THEN \* handleTm returns false; handleLine awaits it
                          /\ ev' = [ ev EXCEPT ![e] = [ r EXCEPT !.pc = "afterTm" ] ]
                          /\ microtasks' = Append(Tail(microtasks), e)
                     ELSE IF TmText(m) = << >>
                     THEN \* handleTm returns true without a translation
                          /\ ev' = [ ev EXCEPT ![e] = Finished(r) ]
                          /\ microtasks' = Tail(microtasks)
                     ELSE \* smartTranslate(text, lang)
                          /\ ev' = [ ev EXCEPT ![e] =
                                       Called(r, "handleTm", "first",
                                              [ text |-> TmText(m),
                                                to |-> TmLang(m),
                                                from |-> << >> ]) ]
                          /\ microtasks' = Tail(microtasks)

\* ---------------------------------------------------------------------------
\* handleLine after `await handleTm`: autoTranslateToConsole up to its await
\* ---------------------------------------------------------------------------

ContinueAfterTm ==
  /\ microtasks # << >>
  /\ ev[Head(microtasks)].pc = "afterTm"
  /\ emitting' = FALSE
  /\ microtasks' = Tail(microtasks)
  /\ UNCHANGED << lastForeignMsg, sinkOk, lookup >>
  /\ NoReply
  /\ LET e == Head(microtasks)
         r == Ran(ev[e], << "autoTranslateToConsole" >>)
     IN  IF AutoSkips(r.message)
         THEN ev' = [ ev EXCEPT ![e] = Finished(r) ]
         ELSE ev' = [ ev EXCEPT ![e] =
                        Called(r, "autoTranslateToConsole", "first",
                               [ text |-> r.message,
                                 to |-> AUTO_TRANSLATE_TARGET,
                                 from |-> << >> ]) ]

\* ---------------------------------------------------------------------------
\* The rest of a handler once smartTranslate has returned res
\* ---------------------------------------------------------------------------

\* handleTl: the name its reply starts with.
TlReplySender(mem) == mem.player

\* An autoTranslateToConsole that prints whatever the source is: the property
\* of C16 tells it from AutoPrints.
AutoPrints_Always(r, res) ==
  << [ team |-> r.team, sender |-> r.sender,
       lang |-> langName(FromIso(res)),
       target |-> ToUpperCase(AUTO_TRANSLATE_TARGET),
       text |-> res.text ] >>

\* autoTranslateToConsole: the line it prints, << >> when it prints none.
AutoPrints(r, res) ==
  IF FromIso(res) # ToLowerCase(AUTO_TRANSLATE_TARGET)
  THEN << [ team |-> r.team, sender |-> r.sender,
            lang |-> langName(FromIso(res)),
            target |-> ToUpperCase(AUTO_TRANSLATE_TARGET),
            text |-> res.text ] >>
  ELSE << >>

\* A faulty continuation in which autoTranslateToConsole also sends its
\* translation to the chat: the property of C5 tells it from AfterTranslate.
AfterTranslate_AutoReplies(e, res, end) ==
  LET r == Got(Ended(Finished(ev[e]), end), res)
      by == IF ev[e].h = "handleTl" THEN "handleTl"
            ELSE IF ev[e].h = "handleTm" THEN "handleTm"
            ELSE "autoTranslateToConsole"
      output == Output(IF ev[e].h = "handleTl"
                       THEN TlReplySender(lastForeignMsg) ELSE r.sender, res)
      team   == IF ev[e].h = "handleTl"
                THEN TlReplyTeam(r.isTeam, lastForeignMsg) ELSE r.isTeam
  IN  /\ UNCHANGED << lastForeignMsg, microtasks >>
      /\ ev' = [ ev EXCEPT ![e] = Replied(r, by, output, team) ]
      /\ Reply(e, output, team)

\* The call of translate in flight ended with end, smartTranslate returns res
\* and the handler that awaited it goes on.
AfterTranslate(e, res, end) ==
  LET r == Got(Ended(Finished(ev[e]), end), res)
  IN  /\ UNCHANGED << lastForeignMsg, microtasks >>
      /\ IF ev[e].h = "handleTl"
         THEN LET output == Output(TlReplySender(lastForeignMsg), res)
                  team   == TlReplyTeam(r.isTeam, lastForeignMsg)
              IN  /\ ev' = [ ev EXCEPT ![e] = Replied(r, "handleTl", output, team) ]
                  /\ Reply(e, output, team)
         ELSE IF ev[e].h = "handleTm"
         THEN LET output == Output(r.sender, res)
              IN  /\ ev' = [ ev EXCEPT ![e] = Replied(r, "handleTm", output, r.isTeam) ]
                  /\ Reply(e, output, r.isTeam)
         ELSE /\ ev' = [ ev EXCEPT ![e] =
                           [ r EXCEPT !.printed = r.printed \o AutoPrints(r, res) ] ]
              /\ NoReply

\* ---------------------------------------------------------------------------
\* The answers of the translation capability (each a task of the event loop)
\* ---------------------------------------------------------------------------

\* The first call of smartTranslate succeeds, reporting source language iso.
FirstCallResolves(e, iso) ==
  /\ microtasks = << >>
  /\ ev[e].pc = "first"
  /\ emitting' = FALSE
  /\ UNCHANGED << sinkOk, lookup >>
  /\ LET r   == ev[e]
         res == FirstResult(r.req.text, r.req.to, iso)
     IN  IF shouldForceRu(r.req.text, iso)
         THEN /\ ev' = [ ev EXCEPT ![e] =
                           Called(Ended([ r EXCEPT !.res = res ], Answered(res)),
                                  r.h, "forced",
                                  [ r.req EXCEPT !.from = Str_ru ]) ]
              /\ UNCHANGED << lastForeignMsg, microtasks >>
              /\ NoReply
         ELSE AfterTranslate(e, res, Answered(res))

\* The first call throws.
FirstCallRejects(e) ==
  /\ microtasks = << >>
  /\ ev[e].pc = "first"
  /\ emitting' = FALSE
  /\ UNCHANGED << sinkOk, lookup >>
  /\ AfterTranslate(e, DegradedResult(ev[e].req.text), Threw)

\* The second call (from: "ru") succeeds.
ForcedCallResolves(e, iso) ==
  /\ microtasks = << >>
  /\ ev[e].pc = "forced"
  /\ emitting' = FALSE
  /\ UNCHANGED << sinkOk, lookup >>
  /\ LET forced == ForcedResult(ev[e].req.text, ev[e].req.to, iso)
     IN  AfterTranslate(e, forced, Answered(forced))

\* A smartTranslate that gives the stub when the second call throws: the
\* property of C15 tells it from KeptResult.
KeptResult_Stub(r) == DegradedResult(r.req.text)

\* smartTranslate: the inner catch falls through to `return res`.
KeptResult(r) == r.res

\* The second call throws: smartTranslate returns the first result.
ForcedCallRejects(e) ==
  /\ microtasks = << >>
  /\ ev[e].pc = "forced"
  /\ emitting' = FALSE
  /\ UNCHANGED << sinkOk, lookup >>
  /\ AfterTranslate(e, KeptResult(ev[e]), Threw)

\* ---------------------------------------------------------------------------
\* The timer of a reply fires: pressBindKey
\* ---------------------------------------------------------------------------

PressBindKey ==
  /\ microtasks = << >>
  /\ timers # << >>
  /\ emitting' = FALSE
  /\ timers' = Tail(timers)
  /\ ev' = [ ev EXCEPT ![Head(timers)].pressed = Append(@, chatCfg) ]
  /\ UNCHANGED << lastForeignMsg, microtasks, chatCfg, sinkOk, lookup >>

Next ==
  \/ \E l \in Lines : Line(l)
  \/ ContinueAfterTl
  \/ ContinueAfterTm
  \/ \E e \in 1..Len(ev) : \E iso \in DetectedIsos : FirstCallResolves(e, iso)
  \/ \E e \in 1..Len(ev) : FirstCallRejects(e)
  \/ \E e \in 1..Len(ev) : \E iso \in DetectedIsos : ForcedCallResolves(e, iso)
  \/ \E e \in 1..Len(ev) : ForcedCallRejects(e)
  \/ PressBindKey

\* The program with a sink that always takes the write.
Spec == Init /\ [][Next]_vars

\* chat_reader.cfg becomes unwritable, or writable again, at any time (the cfg
\* directory is removed, the disk is full, the permissions change).
SinkChanges ==
  /\ sinkOk' = ~sinkOk
  /\ UNCHANGED << ev, lastForeignMsg, microtasks, emitting, chatCfg, timers,
                  lookup >>

NextSink == Next \/ SinkChanges

\* The program with a sink that may fail.
SpecSink == Init /\ [][NextSink]_vars

\* A hang that keeps the event loop busy, as a synchronous wait would: the
\* property of C21 tells it from Hangs.
Hangs_Blocking(e) ==
  /\ e \in 1..Len(ev)
  /\ ev[e].pc \in { "first", "forced" }
  /\ ev' = [ ev EXCEPT ![e].pc = "hung" ]
  /\ microtasks' = << e >> \o microtasks
  /\ UNCHANGED << lastForeignMsg, emitting, chatCfg, timers, sinkOk, lookup >>

\* The promise of translate(...) awaited by call e never settles: no timeout
\* and no cancellation is applied, so the call of handleLine stays suspended
\* at its await for ever.  Nothing else of the program changes.
Hangs(e) ==
  /\ e \in 1..Len(ev)
  /\ ev[e].pc \in { "first", "forced" }
  /\ ev' = [ ev EXCEPT ![e].pc = "hung" ]
  /\ UNCHANGED << lastForeignMsg, microtasks, emitting, chatCfg, timers, sinkOk,
                  lookup >>

NextHang == Next \/ \E e \in 1..MaxLines : Hangs(e)

\* The call of translate in flight for call e returns or throws.
Returns(e) ==
  /\ e \in 1..Len(ev)
  /\ \/ \E iso \in DetectedIsos : FirstCallResolves(e, iso)
     \/ FirstCallRejects(e)
     \/ \E iso \in DetectedIsos : ForcedCallResolves(e, iso)
     \/ ForcedCallRejects(e)

\* The head of the microtask queue is a continuation of handleLine: exactly
\* then ContinueAfterTl or ContinueAfterTm can take a step.
MicrotaskReady ==
  /\ microtasks # << >>
  /\ ev[Head(microtasks)].pc \in { "afterTl", "afterTm" }

\* Call e awaits a call of translate and no continuation is queued: exactly
\* then the answer of that call can be taken from the task queue.
InFlight(e) ==
  /\ e \in 1..Len(ev)
  /\ ev[e].pc \in { "first", "forced" }
  /\ microtasks = << >>

\* The event loop runs every queued continuation and every due timer, and a
\* call of translate that does not hang ends.  Each condition is weak
\* fairness of the step it names; for the continuations and the answers it is
\* written with the guard of the step in the place of ENABLED.
Fairness ==
  /\ WF_vars(PressBindKey)
  /\ \/ []<>(~MicrotaskReady)
     \/ []<><< ContinueAfterTl \/ ContinueAfterTm >>_vars
  /\ \A e \in 1..MaxLines :
       \/ []<>(~InFlight(e))
       \/ []<><< Returns(e) >>_vars

\* The program with translation calls that may hang, run by a fair event loop.
SpecHang == Init /\ [][NextHang]_vars /\ Fairness

\* MaxLines lines are appended to console.log, and fs.watchFile and readline
\* emit every appended line.
LineFairness ==
  \/ []<>(~LineReady)
  \/ []<><< \E l \in Lines : Line(l) >>_vars

\* The program with a sink that may fail, run by a fair event loop on a
\* console.log that receives MaxLines lines.
SpecLoop == Init /\ [][NextSink]_vars /\ Fairness /\ LineFairness

\* ---------------------------------------------------------------------------
\* The program after it has handled a plain message
\* ---------------------------------------------------------------------------

\* What lastForeignMsg holds once one of these plain lines has been handled
\* and its translation has been printed.
RememberedAtStart ==
  { TrackLast(NoMsg, p.sender, p.message, p.team) :
      p \in { LineParse(ChatLine(Ch_ALL, Bo, Msg_cyr)),
              LineParse(ChatLine(Ch_CT, Al, Msg_hi)) } }

\* The program at rest with a message remembered: the calls of handleLine
\* recorded in ev are those of the lines that arrive from here on.
InitRemembered ==
  /\ ev = << >>
  /\ lastForeignMsg \in RememberedAtStart
  /\ microtasks = << >>
  /\ emitting = FALSE
  /\ chatCfg = NoCfg
  /\ timers = << >>
  /\ sinkOk = TRUE
  /\ lookup = NoLookup

SpecRemembered == InitRemembered /\ [][Next]_vars

\* ---------------------------------------------------------------------------
\* bestLangMatch called on its own
\* ---------------------------------------------------------------------------

\* The queries given to bestLangMatch: every name of the catalog, the query
\* of "code_french", codes, misspelt and foreign names, names with
\* separators, parentheses and padding, and queries without any letter.
Queries ==
  { LANG_MAP[i].name : i \in 1..Len(LANG_MAP) }
  \cup { CodeQuery(<< "c", "o", "d", "e", "_", "f", "r", "e", "n", "c", "h" >>) }
  \cup { << "F", "R" >>,
         << "z", "h", "-", "C", "N" >>,
         << "z", "h", "_", "c", "n" >>,
         << "b", "r", "a", "s", "i", "l" >>,
         << "p", "o", "r", "t", "u", "g", "e", "s", "e" >>,
         << "k", "l", "i", "n", "g", "o", "n" >>,
         << "h", "a", "n", "g", "u", "l" >>,
         << "l", "u", "x", "e", "m", "b", "o", "q", "q", "q", "q", "q", "q" >>,
         << "x", "y", "z" >>,
         << "t", "u", "r", "k" >>,
         << "c", "h", "i", "n", "a" >>,
         << "H", "a", "i", "t", "i", "a", "n", "_", "C", "r", "e", "o", "l", "e" >>,
         << "s", "c", "o", "t", "s", "-", "-", "g", "a", "e", "l", "i", "c" >>,
         << " ", " ", "F", "r", "e", "n", "c", "h", " " >>,
         << "(", "f", "r", "e", "n", "c", "h", ")" >>,
         << "S", "c", "o", "t", "s", " ", "(", "o", "l", "d", ")", " ", "G", "a", "e", "l", "i", "c" >>,
         << "_", "_", "_" >>,
         << "(", ")" >>,
         << "-", " ", "_" >> }

\* bestLangMatch(query): the call with its argument, its local q and its
\* return value.
Lookup(query) ==
  [ query |-> query, q |-> normalizeQueryLoose(query),
    match |-> bestLangMatch(query) ]

\* bestLangMatch is called with a query.
Resolve(query) ==
  /\ lookup = NoLookup
  /\ lookup' = Lookup(query)
  /\ UNCHANGED << ev, lastForeignMsg, microtasks, emitting, chatCfg, timers,
                  sinkOk >>

\* bestLangMatch is called with the catalog name of the code it returned
\* last ("code <name>").
ResolveName ==
  /\ lookup.match # NoMatch
  /\ lookup' = Lookup(langName(lookup.match.code))
  /\ UNCHANGED << ev, lastForeignMsg, microtasks, emitting, chatCfg, timers,
                  sinkOk >>

NextResolver ==
  \/ \E query \in Queries : Resolve(query)
  \/ ResolveName

\* The language helper on its own.
SpecResolver == Init /\ [][NextResolver]_vars

\* ---------------------------------------------------------------------------
\* Vocabulary of the properties
\* ---------------------------------------------------------------------------

\* The message has a character other than whitespace and ".".
HasContent(message) ==
  \E i \in 1..Len(message) : message[i] \notin WhiteSpace \cup { "." }

\* The record lastForeignMsg holds once the call r of handleLine stored its
\* line.
StoredFrom(r) ==
  [ set |-> TRUE, player |-> r.sender, message |-> r.message, team |-> r.team ]

\* This step is the arrival of a new line.
Arrives == Len(ev') = Len(ev) + 1

\* The call of handleLine that starts in this step.
Arrived == ev'[Len(ev')]

\* The call e of handleLine takes this step: it starts, continues after an
\* await, or its timer fires.
Steps(e) == e > Len(ev) \/ ev'[e] # ev[e]

\* ---------------------------------------------------------------------------
\* C1
\* ---------------------------------------------------------------------------

\* C1: when a line with a message that matches none of the command prefixes and
\* has a character other than whitespace and "." arrives, lastForeignMsg is,
\* right after the arrival, that line's sender, message and channel, whatever
\* it held before and whatever calls are still awaiting.
C1_PlainMessageIsStored ==
  [][ (Arrives /\ Arrived.matched /\ ~ReCommand(Arrived.message)
         /\ HasContent(Arrived.message))
        => lastForeignMsg' = StoredFrom(Arrived) ]_vars

\* A plain message has arrived while an earlier plain message, from another
\* sender on another channel, still awaits its translation; the memory holds
\* the later one.
C1_Witness ==
  /\ Len(ev) = 2
  /\ ev[1].matched /\ ~ReCommand(ev[1].message) /\ HasContent(ev[1].message)
  /\ ev[2].matched /\ ~ReCommand(ev[2].message) /\ HasContent(ev[2].message)
  /\ ev[1].pc = "first"
  /\ ev[1].sender # ev[2].sender /\ ev[1].team # ev[2].team
  /\ lastForeignMsg = StoredFrom(ev[2])

\* ---------------------------------------------------------------------------
\* C2
\* ---------------------------------------------------------------------------

\* C2: no step of the handling of a command line (_tl, code, tm_xx), from its
\* arrival to its reply and the timer of the reply, changes lastForeignMsg.
C2_CommandKeepsMemory ==
  [][ \A e \in 1..Len(ev') :
        (ev'[e].matched /\ ReCommand(ev'[e].message) /\ Steps(e))
          => lastForeignMsg' = lastForeignMsg ]_vars

\* A _tl command has been handled to the end, translation, reply and key
\* press, and the memory still holds the plain line that came before it.
C2_Witness ==
  /\ Len(ev) = 2
  /\ ~ReCommand(ev[1].message)
  /\ ReTl(ev[2].message)
  /\ ev[2].pc = "done" /\ ev[2].calls # << >>
  /\ Len(ev[2].wrote) = 1 /\ Len(ev[2].pressed) = 1
  /\ lastForeignMsg = StoredFrom(ev[1])

\* ---------------------------------------------------------------------------
\* C3
\* ---------------------------------------------------------------------------

\* The tm_ keyword, compared as the /i flag compares it.
Str_tm == << "t", "m", "_" >>

\* C3: the arrival of a line whose message starts with the tm_ keyword but
\* carries no valid language code ("tm_", "tm_ hi") leaves lastForeignMsg
\* unchanged.
C3_MalformedTmKeepsMemory ==
  [][ (Arrives /\ Arrived.matched /\ StartsWithCI(Arrived.message, Str_tm)
         /\ ~ReTm(Arrived.message))
        => lastForeignMsg' = lastForeignMsg ]_vars

\* ---------------------------------------------------------------------------
\* C4
\* ---------------------------------------------------------------------------

\* C4: lastForeignMsg is unset or holds a message that is not empty after
\* trimming.
C4_MemoryMessageNonEmpty ==
  ~lastForeignMsg.set \/ Trim(lastForeignMsg.message) # << >>

\* ---------------------------------------------------------------------------
\* C5, C6
\* ---------------------------------------------------------------------------

\* The handlers in the order handleLine tries them.
HandlerOrder ==
  << "handleTl", "handleCodeLang", "handleTm", "autoTranslateToConsole" >>

\* The rule that decides message m: 1 for _tl, 2 for code with a remainder,
\* 3 for tm_<code>, 4 for anything else.  The keyword is compared on the
\* lower-cased message, so that "_TL", "Code" and "TM_DE" count.
RuleOf(m) ==
  LET lm == ToLowerCase(m)
  IN  IF ReTl(lm) THEN 1
      ELSE IF ReCode(lm) THEN 2
      ELSE IF ReTm(lm) THEN 3
      ELSE 4

\* The set of the elements of sequence s.
Range(s) == { s[i] : i \in 1..Len(s) }

\* C5: under every interleaving each call of handleLine calls writeChatCfg at
\* most once, from the handler (handleTl, handleCodeLang or handleTm) whose
\* rule matched the line, with at most one key-press timer; a line that is no
\* command, or that did not parse, causes no write and no key press.
C5_SingleReply ==
  \A e \in 1..Len(ev) :
    LET r == ev[e]
        k == RuleOf(r.message)
    IN  /\ Len(r.wrote) <= 1
        /\ Len(r.pressed) + Cardinality({ i \in 1..Len(timers) : timers[i] = e })
             = Len(r.wrote)
        /\ \A i \in 1..Len(r.wrote) :
             /\ k <= 3
             /\ r.wrote[i].by = HandlerOrder[k]
        /\ (~r.matched \/ k = 4) =>
             /\ r.wrote = << >>
             /\ r.pressed = << >>
             /\ e \notin Range(timers)

\* Two commands were in flight together, the later one replied first, each
\* wrote once, from its own handler.
C5_Witness ==
  /\ Len(ev) = 2
  /\ ev[1].pc = "done" /\ ev[2].pc = "done"
  /\ Len(ev[1].wrote) = 1 /\ ev[1].wrote[1].by = "handleTm"
  /\ Len(ev[2].wrote) = 1 /\ ev[2].wrote[1].by = "handleCodeLang"
  /\ timers = << 2, 1 >>

\* A plain line has been handled to the end, translation printed, beside a
\* command that replied: the plain line wrote nothing and pressed no key.
C5_WitnessPlain ==
  /\ Len(ev) = 2
  /\ ev[1].matched /\ RuleOf(ev[1].message) = 4
  /\ ev[1].pc = "done" /\ ev[1].printed # << >>
  /\ Len(ev[2].wrote) = 1 /\ Len(ev[2].pressed) = 1

\* C6: handleLine tries the rules in the order _tl, code, tm_<code>, plain:
\* the handlers a call has run are an initial part of HandlerOrder, the call
\* stops at the first handler whose rule matches the message, compared
\* case-insensitively, and only that handler translates or replies.
C6_FirstMatchWins ==
  \A e \in 1..Len(ev) :
    LET r == ev[e]
        k == RuleOf(r.message)
    IN  r.matched =>
          /\ Len(r.ran) <= k
          /\ r.ran = SubSeq(HandlerOrder, 1, Len(r.ran))
          /\ (r.pc \in { "done", "first", "forced" } => Len(r.ran) = k)
          /\ (r.h # "" => r.h = HandlerOrder[k])
          /\ \A i \in 1..Len(r.wrote) : r.wrote[i].by = HandlerOrder[k]
          /\ (r.calls # << >> => r.h = HandlerOrder[k] \/ r.pc = "done")

\* "_TL DE" stopped at handleTl and "TM_DE hi" at handleTm, both handled to
\* the end.
C6_Witness ==
  /\ Len(ev) = 2
  /\ ev[1].message = << "_", "T", "L", " ", "D", "E" >>
  /\ ev[1].ran = << "handleTl" >> /\ ev[1].pc = "done"
  /\ ev[2].message = << "T", "M", "_", "D", "E", " ", "h", "i" >>
  /\ ev[2].ran = << "handleTl", "handleCodeLang", "handleTm" >>
  /\ ev[2].pc = "done" /\ Len(ev[2].wrote) = 1

\* ---------------------------------------------------------------------------
\* C7
\* ---------------------------------------------------------------------------

\* The whitespace-delimited tokens of s.
RECURSIVE Tokens(_)
Tokens(s) ==
  IF s = << >> THEN << >>
  ELSE IF Head(s) \in WhiteSpace THEN Tokens(Tail(s))
  ELSE LET ends == { k \in 1..Len(s) :
                       /\ \A j \in 1..k : s[j] \notin WhiteSpace
                       /\ (k = Len(s) \/ s[k + 1] \in WhiteSpace) }
           k    == CHOOSE x \in ends : TRUE
       IN  << SubSeq(s, 1, k) >> \o Tokens(Slice(s, k))

\* The target a _tl message asks for: its second token lower-cased, "en" when
\* it has none.
RequestedTarget(m) ==
  IF Len(Tokens(m)) >= 2 THEN ToLowerCase(Tokens(m)[2]) ELSE Str_en

\* The calls of handleLine, among those started so far, whose line is a plain
\* message with content.
QualifyingPlain ==
  { j \in 1..Len(ev) :
      /\ ev[j].matched
      /\ ~ReCommand(ev[j].message)
      /\ HasContent(ev[j].message) }

\* The latest of them.
LastQualifyingPlain ==
  CHOOSE j \in QualifyingPlain : \A i \in QualifyingPlain : i <= j

\* C7: a _tl line that arrives while lastForeignMsg is set asks, on arrival,
\* for one translation: of the message of the latest plain line with content
\* before it, to the second token of the _tl message, lower-cased, or to "en"
\* when it has no second token.
C7_TlTranslatesLastPlain ==
  [][ (Arrives /\ Arrived.matched /\ ReTl(Arrived.message)
         /\ lastForeignMsg.set /\ QualifyingPlain # {})
        => Arrived.calls =
             << [ text |-> ev[LastQualifyingPlain].message,
                  to   |-> RequestedTarget(Arrived.message),
                  from |-> << >> ] >> ]_vars

\* ---------------------------------------------------------------------------
\* C8
\* ---------------------------------------------------------------------------

\* C8: a _tl line that arrives while lastForeignMsg is unset is handled at
\* once: its call of handleLine writes the notice "No recent message to
\* translate." and nothing else, sets its timer, never calls translate, and
\* lastForeignMsg is still unset.
C8_TlWithoutMemoryGivesNotice ==
  [][ (Arrives /\ Arrived.matched /\ ReTl(Arrived.message)
         /\ ~lastForeignMsg.set)
        => /\ Len(Arrived.wrote) = 1
           /\ Arrived.wrote[1].message = Str_NoRecent
           /\ chatCfg'.written /\ chatCfg'.safe = Str_NoRecent
           /\ timers' = Append(timers, Len(ev'))
           /\ Arrived.calls = << >>
           /\ Arrived.pc = "done"
           /\ lastForeignMsg' = NoMsg ]_vars

\* A _tl line was the first line with a message to remember or to act on: it
\* got the notice, the key was pressed, no translation was asked for.
C8_Witness ==
  /\ Len(ev) >= 1
  /\ ReTl(ev[1].message)
  /\ Len(ev[1].wrote) = 1
  /\ ev[1].wrote[1].message = Str_NoRecent
  /\ Len(ev[1].pressed) = 1
  /\ ev[1].calls = << >>
  /\ ~lastForeignMsg.set

\* ---------------------------------------------------------------------------
\* C9
\* ---------------------------------------------------------------------------

\* The line of call r came over a team channel.
OnTeamChannel(r) == r.team \in { Ch_CT, Ch_T }

\* C9: every reply of handleTl, handleCodeLang and handleTm carries the team
\* flag of the line being handled, true exactly for CT and T, and
\* chat_reader.cfg holds say_team or say accordingly; for _tl this is the
\* channel of the _tl line, not the one in lastForeignMsg.
C9_ReplyOnChannelOfEvent ==
  /\ \A e \in 1..Len(ev) : \A i \in 1..Len(ev[e].wrote) :
       ev[e].wrote[i].team = OnTeamChannel(ev[e])
  /\ chatCfg.written =>
       \E e \in 1..Len(ev) : \E i \in 1..Len(ev[e].wrote) :
         /\ chatCfg.safe = escapeForCfg(ev[e].wrote[i].message)
         /\ chatCfg.cmd = IF OnTeamChannel(ev[e]) THEN "say_team" ELSE "say"

\* A _tl line on ALL was answered with the translation of a message that
\* came over CT: the reply went out with say.
C9_Witness ==
  /\ Len(ev) = 2
  /\ ev[1].team = Ch_CT /\ lastForeignMsg = StoredFrom(ev[1])
  /\ ev[2].team = Ch_ALL /\ ReTl(ev[2].message)
  /\ ev[2].calls # << >>
  /\ Len(ev[2].wrote) = 1 /\ ~ev[2].wrote[1].team
  /\ chatCfg.cmd = "say"

\* ---------------------------------------------------------------------------
\* C10
\* ---------------------------------------------------------------------------

\* C10: a call of handleLine for a code line with a remainder never calls
\* translate and, once handled, has written exactly one reply: "For <name>
\* use tm_<code>" when bestLangMatch finds the language, the no-match hint
\* with the query when it finds none.
C10_CodeAlwaysReplies ==
  \A e \in 1..Len(ev) :
    LET r == ev[e]
        q == CodeQuery(r.message)
        m == bestLangMatch(q)
    IN  (r.matched /\ ReCode(r.message)) =>
          /\ r.calls = << >>
          /\ r.printed = << >>
          /\ IF r.pc # "done" THEN r.wrote = << >>
             ELSE /\ Len(r.wrote) = 1
                  /\ r.wrote[1].by = "handleCodeLang"
                  /\ r.wrote[1].message =
                       IF m # NoMatch
                       THEN Str_For \o m.name \o Str_use \o m.code
                       ELSE Str_NoClose \o q \o Str_Try

\* "code french" was answered with "For French use tm_fr" and "code__" with
\* the hint.
C10_Witness ==
  /\ Len(ev) = 2
  /\ ev[1].message = << "c", "o", "d", "e", " ", "f", "r", "e", "n", "c", "h" >>
  /\ Len(ev[1].wrote) = 1
  /\ ev[1].wrote[1].message =
       << "F", "o", "r", " ", "F", "r", "e", "n", "c", "h", " ", "u", "s", "e",
          " ", "t", "m", "_", "f", "r" >>
  /\ ev[2].message = << "c", "o", "d", "e", "_", "_" >>
  /\ Len(ev[2].wrote) = 1
  /\ ev[2].wrote[1].message = Str_NoClose \o << "_" >> \o Str_Try

\* ---------------------------------------------------------------------------
\* C11
\* ---------------------------------------------------------------------------

\* The query of a code message: what follows the keyword and its separator.
QueryOfCode(m) == Trim(Slice(m, 5))

\* C11: a call of handleLine for a code message whose query normalizes to the
\* empty string ("code_", "code__") never writes a reply.
C11_EmptyCodeQueryIsSilent ==
  \A e \in 1..Len(ev) :
    (/\ ev[e].matched
     /\ ReCodePrefix(ev[e].message)
     /\ normalizeQueryLoose(QueryOfCode(ev[e].message)) = << >>)
      => ev[e].wrote = << >>

\* ---------------------------------------------------------------------------
\* C12
\* ---------------------------------------------------------------------------

\* The message is a tm_<code> command and nothing else.
BareTm(m) == ReTm(ToLowerCase(m)) /\ Len(Tokens(m)) = 1

\* C12: the call of handleLine for a tm_<code> message with nothing after the
\* command is recognized by handleTm and does nothing: it never calls
\* translate, never writes to the sink, sets no timer, presses no key, prints
\* no translation, and none of its steps changes lastForeignMsg.
C12_BareTmDoesNothing ==
  [][ \A e \in 1..Len(ev') :
        LET r == ev'[e]
        IN  (r.matched /\ BareTm(r.message)) =>
              /\ r.calls = << >>
              /\ r.wrote = << >>
              /\ r.pressed = << >>
              /\ r.printed = << >>
              /\ ~r.error
              /\ e \notin Range(timers')
              /\ "autoTranslateToConsole" \notin Range(r.ran)
              /\ (r.pc = "done" => r.ran[Len(r.ran)] = "handleTm")
              /\ (Steps(e) => lastForeignMsg' = lastForeignMsg) ]_vars

\* "tm_de" has been handled to the end, handleTm was the last handler, and the
\* memory still holds the plain line before it.
C12_Witness ==
  /\ Len(ev) = 2
  /\ ev[2].matched /\ BareTm(ev[2].message)
  /\ ev[2].pc = "done"
  /\ ev[2].ran = << "handleTl", "handleCodeLang", "handleTm" >>
  /\ ev[2].calls = << >> /\ ev[2].wrote = << >>
  /\ lastForeignMsg = StoredFrom(ev[1])

\* ---------------------------------------------------------------------------
\* C13
\* ---------------------------------------------------------------------------

\* C13: when the first call of translate throws, smartTranslate makes no
\* other call and returns to its handler, which goes on as after any result,
\* the input text unchanged with source "unknown" and no forced source.
C13_FirstFailureDegrades ==
  \A e \in 1..Len(ev) :
    LET r == ev[e]
    IN  (r.ends # << >> /\ ~r.ends[1].ok) =>
          /\ Len(r.calls) = 1
          /\ Len(r.ends) = 1
          /\ r.got = << [ text |-> r.calls[1].text,
                          iso |-> << "u", "n", "k", "n", "o", "w", "n" >>,
                          forcedFrom |-> << >> ] >>
          /\ r.pc = "done"
          /\ ~r.error
          /\ (r.ran[Len(r.ran)] \in { "handleTl", "handleTm" } =>
                Len(r.wrote) = 1)

\* The first call of a tm_ command threw and the command replied with the
\* text as it was given.
C13_Witness ==
  \E e \in 1..Len(ev) :
    /\ ev[e].ends = << Threw >>
    /\ ReTm(ev[e].message)
    /\ ev[e].got # << >> /\ ev[e].got[1].text = TmText(ev[e].message)
    /\ Len(ev[e].wrote) = 1
    /\ Len(ev[e].pressed) = 1

\* ---------------------------------------------------------------------------
\* C14
\* ---------------------------------------------------------------------------

\* The text has a character of the block U+0400..U+04FF.
HasCyrillic(text) == \E i \in 1..Len(text) : text[i] \in CyrillicChars

\* The first call of r returned, with a source other than "ru", for a text
\* with a Cyrillic character.
OverrideApplies(r) ==
  /\ r.ends[1].ok
  /\ r.ends[1].iso # << "r", "u" >>
  /\ HasCyrillic(r.calls[1].text)

\* C14: once the first call of translate has ended, smartTranslate has made a
\* second call, for the same text and target with source "ru", exactly when
\* the first call returned, its source is not "ru" and the text has a Cyrillic
\* character; when the second call returns, smartTranslate returns its text
\* with the forced source "ru"; when no second call is due, it returns the
\* result of the first call with no forced source.
C14_ForcesRuForCyrillic ==
  \A e \in 1..Len(ev) :
    LET r == ev[e]
    IN  r.ends # << >> =>
          /\ (Len(r.calls) >= 2) <=> OverrideApplies(r)
          /\ Len(r.calls) <= 2
          /\ Len(r.calls) = 2 =>
               r.calls[2] = [ text |-> r.calls[1].text, to |-> r.calls[1].to,
                              from |-> << "r", "u" >> ]
          /\ (Len(r.ends) = 2 /\ r.ends[2].ok) =>
               /\ r.got = << [ text |-> r.ends[2].text, iso |-> r.ends[2].iso,
                               forcedFrom |-> << "r", "u" >> ] >>
               /\ originalLangReadable(r.got[1])
                    = << "R", "u", "s", "s", "i", "a", "n" >>
          /\ (r.ends[1].ok /\ ~OverrideApplies(r)) =>
               r.got = << [ text |-> r.ends[1].text, iso |-> r.ends[1].iso,
                            forcedFrom |-> << >> ] >>

\* A Cyrillic text detected as English was translated again from "ru" and the
\* second result was returned; beside it an ASCII text detected as English
\* was returned from the first call.
C14_Witness ==
  /\ Len(ev) = 2
  /\ Len(ev[1].ends) = 2 /\ ev[1].ends[1].ok /\ ev[1].ends[2].ok
  /\ ev[1].ends[1].iso = Str_en
  /\ HasCyrillic(ev[1].calls[1].text)
  /\ ev[1].got # << >> /\ ev[1].got[1].forcedFrom = Str_ru
  /\ Len(ev[2].ends) = 1 /\ ev[2].ends[1].ok
  /\ ~HasCyrillic(ev[2].calls[1].text)
  /\ ev[2].got # << >> /\ ev[2].got[1].forcedFrom = << >>

\* ---------------------------------------------------------------------------
\* C15
\* ---------------------------------------------------------------------------

\* C15: when the second call of translate (source "ru") throws, smartTranslate
\* returns the result of the first call, its text and its source, with no
\* forced source, makes no third call, and the handler goes on.
C15_ForcedFailureKeepsFirst ==
  \A e \in 1..Len(ev) :
    LET r == ev[e]
    IN  (Len(r.ends) = 2 /\ ~r.ends[2].ok) =>
          /\ r.ends[1].ok
          /\ r.got = << [ text |-> r.ends[1].text, iso |-> r.ends[1].iso,
                          forcedFrom |-> << >> ] >>
          /\ r.got[1].text # r.calls[1].text
          /\ Len(r.calls) = 2
          /\ r.pc = "done"
          /\ ~r.error

\* The second call of a _tl command threw and the reply carries the first
\* translation, marked as English.
C15_Witness ==
  \E e \in 1..Len(ev) :
    /\ ReTl(ev[e].message)
    /\ Len(ev[e].ends) = 2 /\ ~ev[e].ends[2].ok
    /\ ev[e].ends[1].iso = Str_en
    /\ Len(ev[e].wrote) = 1
    /\ ev[e].wrote[1].message =
         Output(lastForeignMsg.player,
                FirstResult(lastForeignMsg.message, ev[e].calls[1].to, Str_en))

\* ---------------------------------------------------------------------------
\* C16
\* ---------------------------------------------------------------------------

\* The source that counts for the result smartTranslate gave to call r: "ru"
\* when the forced call returned, else the source the first call detected,
\* "unknown" when the first call threw.
EffectiveSource(r) ==
  IF Len(r.ends) = 2 /\ r.ends[2].ok THEN << "r", "u" >>
  ELSE IF r.ends[1].ok THEN r.ends[1].iso
  ELSE << "u", "n", "k", "n", "o", "w", "n" >>

C17_EmptyOrDotsIsSkipped ==
  [][ \A e \in 1..Len(ev') :
        LET r == ev'[e]
        IN  (r.matched /\ ~ReCommand(r.message) /\ ~HasContent(r.message)) =>
              /\ r.calls = << >>
              /\ r.printed = << >>
              /\ r.wrote = << >>
              /\ (Steps(e) => lastForeignMsg' = lastForeignMsg) ]_vars

\* ---------------------------------------------------------------------------
\* C18
\* ---------------------------------------------------------------------------

\* The line has the shape "[channel] sender: message" with the bracketed
\* channel ch at position i: white space follows the bracket, then a sender
\* field without a colon up to the colon at position c, one white-space
\* character and at least one more character.
ChatShape(line, i, c, ch) ==
  LET rb == i + Len(ch) + 1
  IN  /\ c + 2 <= Len(line)
      /\ rb + 2 < c
      /\ SubSeq(line, i, rb) = << "[" >> \o ch \o << "]" >>
      /\ line[rb + 1] \in WhiteSpace
      /\ \A j \in (rb + 1)..(c - 1) : line[j] # ":"
      /\ line[c] = ":"
      /\ line[c + 1] \in WhiteSpace

HasChatShapeAt(line, i, c) ==
  \E ch \in { << "C", "T" >>, << "T" >>, << "A", "L", "L" >> } :
    ChatShape(line, i, c, ch)

\* The positions of character ch in the line.
PositionsOf(line, ch) == { k \in 1..Len(line) : line[k] = ch }

HasChatShape(line) ==
  \E i \in PositionsOf(line, "[") : \E c \in PositionsOf(line, ":") :
    HasChatShapeAt(line, i, c)

\* C18: a line without the shape "[channel] sender: message" is dropped when
\* it arrives: handleLine returns at once, without an event, a translate call,
\* a write, a timer or a rejected promise, and lastForeignMsg, the queue of
\* continuations, chat_reader.cfg and the timers stay as they were.
C18_OtherLinesAreDropped ==
  [][ (Arrives /\ ~HasChatShape(Arrived.line)) =>
        /\ ~Arrived.matched
        /\ Arrived.pc = "done"
        /\ Arrived.ran = << >>
        /\ Arrived.calls = << >>
        /\ Arrived.wrote = << >>
        /\ Arrived.printed = << >>
        /\ ~Arrived.error
        /\ UNCHANGED << lastForeignMsg, microtasks, chatCfg, timers >> ]_vars

\* A line with an unknown channel arrived after a plain line and was dropped;
\* the memory holds the plain line.
C18_Witness ==
  /\ Len(ev) = 2
  /\ ev[2].line = ChatLine(<< "X" >>, Al, Msg_hi)
  /\ ~ev[2].matched /\ ev[2].ran = << >>
  /\ lastForeignMsg = StoredFrom(ev[1])

\* ---------------------------------------------------------------------------
\* C19
\* ---------------------------------------------------------------------------

\* The call r took its channel, sender and message from the shape at
\* position i of its line: the sender is the trimmed text between the closing
\* bracket and the first colon after it, the message the trimmed rest.
ParsedFrom(r, i, c) ==
  \E ch \in { << "C", "T" >>, << "T" >>, << "A", "L", "L" >> } :
    /\ ChatShape(r.line, i, c, ch)
    /\ r.team = ch
    /\ r.sender = Trim(SubSeq(r.line, i + Len(ch) + 2, c - 1))
    /\ r.message = Trim(SubSeq(r.line, c + 1, Len(r.line)))

\* C19: every line with the shape "[channel] sender: message" gives an event
\* whose channel, sender and message are those of the leftmost such shape in
\* the line: the sender is the text between the closing bracket and the first
\* colon, trimmed, the message everything after that colon, trimmed, later
\* colons included.
C19_ParserTakesFirstColon ==
  \A e \in 1..Len(ev) :
    LET r == ev[e]
    IN  HasChatShape(r.line) =>
          /\ r.matched
          /\ \E i \in PositionsOf(r.line, "[") :
             \E c \in PositionsOf(r.line, ":") :
               /\ ParsedFrom(r, i, c)
               /\ \A j \in 1..(i - 1) : \A d \in PositionsOf(r.line, ":") :
                    ~HasChatShapeAt(r.line, j, d)

\* The line "[T]  Bo : a: b " gave sender "Bo" and message "a: b", and the
\* line "1:2 [CT] Al: hi", with a colon before the bracket, sender "Al".
C19_Witness ==
  /\ Len(ev) = 2
  /\ ev[1].line = ChatLine(Ch_T, << " ", "B", "o", " " >>,
                           << "a", ":", " ", "b", " " >>)
  /\ ev[1].sender = Bo
  /\ ev[1].message = << "a", ":", " ", "b" >>
  /\ ev[2].line = << "1", ":", "2", " " >> \o ChatLine(Ch_CT, Al, Msg_hi)
  /\ ev[2].sender = Al /\ ev[2].message = Msg_hi /\ ev[2].team = Ch_CT

\* ---------------------------------------------------------------------------
\* C20
\* ---------------------------------------------------------------------------

\* The number of pending timers of call e.
Pending(tm, e) == Cardinality({ i \in 1..Len(tm) : tm[i] = e })

\* The number of writes call e had completed before this step.
WritesBefore(e) == IF e > Len(ev) THEN 0 ELSE Len(ev[e].wrote)

\* C20: a step that sets a key-press timer is a step in which the call that
\* sets it has just completed its write, the file holding that reply; a call
\* whose write threw sets no timer; and no call has more timers, pending or
\* fired, than completed writes.
C20_WriteBeforeTrigger ==
  [][ /\ Len(timers') > Len(timers) =>
           LET e == timers'[Len(timers')]
               w == ev'[e].wrote
           IN  /\ timers' = Append(timers, e)
               /\ sinkOk
               /\ Len(w) = WritesBefore(e) + 1
               /\ chatCfg' = CfgCommand(w[Len(w)].message, w[Len(w)].team)
               /\ ~ev'[e].error
      /\ \A e \in 1..Len(ev') :
           /\ Len(ev'[e].pressed) + Pending(timers', e) <= Len(ev'[e].wrote)
           /\ ev'[e].error =>
                ev'[e].pressed = << >> /\ Pending(timers', e) = 0 ]_vars

\* The write of one command threw and no key was pressed for it, the write
\* of another command completed and its key was pressed.
C20_Witness ==
  /\ Len(ev) = 2
  /\ ev[1].error /\ ev[1].wrote = << >> /\ ev[1].pressed = << >>
  /\ ev[1].pc = "done" /\ ev[1].calls # << >>
  /\ Len(ev[2].wrote) = 1 /\ Len(ev[2].pressed) = 1
  /\ timers = << >>

\* ---------------------------------------------------------------------------
\* C21
\* ---------------------------------------------------------------------------

\* Call e of handleLine awaits a translation that never returns.
IsHung(e) == e <= Len(ev) /\ ev[e].pc = "hung"

SomeHung == \E h \in 1..Len(ev) : IsHung(h)

\* Call e has returned and every reply it wrote had its key pressed.
Delivered(e) ==
  /\ e <= Len(ev)
  /\ ev[e].pc = "done"
  /\ Len(ev[e].pressed) = Len(ev[e].wrote)
  /\ Pending(timers, e) = 0

\* C21: while a call awaits a translation that never returns, a line that
\* arrives is still parsed (it gives an event exactly when it has the shape of
\* a chat line) and a plain message with content is stored in lastForeignMsg;
\* and every call, whether it started before or after the hung one, whose own
\* translation calls do not hang eventually returns with the key pressed for
\* each reply it wrote.
C21_HungCallDelaysOnlyItself ==
  /\ [][ (Arrives /\ SomeHung) =>
           /\ Arrived.matched = HasChatShape(Arrived.line)
           /\ (Arrived.matched /\ ~ReCommand(Arrived.message)
                 /\ HasContent(Arrived.message))
                => lastForeignMsg' = StoredFrom(Arrived) ]_vars
  /\ \A e \in 1..MaxLines :
       (Len(ev) >= e) ~> (Delivered(e) \/ IsHung(e))

\* The translation of the first line hangs; the second line arrived later,
\* its translation returned, its reply was written and its key pressed.
C21_Witness ==
  /\ Len(ev) = 2
  /\ ev[1].pc = "hung"
  /\ ev[2].calls # << >> /\ ev[2].got # << >>
  /\ Len(ev[2].wrote) = 1
  /\ Delivered(2)

\* ---------------------------------------------------------------------------
\* C22
\* ---------------------------------------------------------------------------

\* The handling of the line of call r met a failure: a call of translate
\* threw, the lookup of code_ found no language, _tl found no remembered
\* message, or the write of chat_reader.cfg threw.
Failed(r) ==
  \/ r.error
  \/ \E i \in 1..Len(r.ends) : r.ends[i] = Threw
  \/ \E i \in 1..Len(r.wrote) :
       \/ r.wrote[i].message = Str_NoRecent
       \/ StartsWithExactly(r.wrote[i].message, Str_NoClose)

SomeFailed == \E e \in 1..Len(ev) : Failed(ev[e])

\* C22: once the handling of some line has met a failure, a line that
\* arrives is still parsed (it gives an event exactly when it has the shape of
\* a chat line) and, when it gives an event, handed to the dispatcher, which
\* starts with handleTl; and as long as console.log receives lines, the next
\* line does arrive at handleLine.
C22_FailureKeepsLoopAlive ==
  /\ [][ (Arrives /\ SomeFailed) =>
           /\ Arrived.matched = HasChatShape(Arrived.line)
           /\ Arrived.matched =>
                (Arrived.ran # << >> /\ Arrived.ran[1] = "handleTl") ]_vars
  /\ \A n \in 1..(MaxLines - 1) :
       (Len(ev) = n /\ SomeFailed) ~> (Len(ev) > n)

\* The write for the first line threw and rejected the promise of its
\* handleLine; the second line arrived later, was parsed and dispatched, its
\* translation failed, and its reply was still written.
C22_Witness ==
  /\ Len(ev) = 2
  /\ ev[1].error /\ ev[1].pc = "done"
  /\ ev[2].matched /\ ev[2].pc = "done"
  /\ ev[2].ends = << Threw >>
  /\ Len(ev[2].wrote) = 1

\* ---------------------------------------------------------------------------
\* C23
\* ---------------------------------------------------------------------------

Str_french == << "f", "r", "e", "n", "c", "h" >>

Str_French == << "F", "r", "e", "n", "c", "h" >>

\* The name has no parenthesized part.
NoParens(name) == \A k \in 1..Len(name) : name[k] \notin { "(", ")" }

\* C23: the query of "code_french" resolves to a code whose catalog name is
\* "French"; the name of every catalog entry without a parenthesized part
\* resolves to the code of that entry; and resolving the catalog name of a
\* returned code returns that code again.
C23_ResolverRoundTrip ==
  [][ /\ lookup'.query = Str_french
           => LangMapGet(lookup'.match.code) = Str_French
      /\ \A i \in 1..Len(LANG_MAP) :
           (lookup'.query = LANG_MAP[i].name /\ NoParens(LANG_MAP[i].name))
             => lookup'.match.code = LANG_MAP[i].code
      /\ (lookup.match # NoMatch
            /\ lookup'.query = LangMapGet(lookup.match.code))
           => lookup'.match.code = lookup.match.code ]_vars

\* "French", the name of the code returned for "french", was resolved and
\* gave fr again.
C23_Witness ==
  /\ lookup.query = Str_French
  /\ lookup.match.code = << "f", "r" >>
  /\ lookup.match.name = Str_French

\* ---------------------------------------------------------------------------
\* C24
\* ---------------------------------------------------------------------------

\* Every alias of every catalog entry.
AllAliases ==
  UNION { buildLangCandidates[i].aliases : i \in 1..Len(buildLangCandidates) }

\* The highest fuzz.ratio of q over all aliases of all entries.
BestScore(q) == MaxOf({ FuzzRatio(q, a) : a \in AllAliases })

\* bestLangMatch has been called and its normalized query is no alias.
FuzzyLookup == lookup # NoLookup /\ lookup.q \notin AllAliases

\* C24: when the normalized query equals no alias, bestLangMatch returns a
\* match exactly when the best score over all entries is at least 55, and the
\* score of a returned match is that best score.
C24_ThresholdIs55 ==
  FuzzyLookup =>
    /\ lookup.match # NoMatch <=> BestScore(lookup.q) >= 55
    /\ lookup.match # NoMatch =>
         (lookup.match.score >= 55 /\ lookup.match.score = BestScore(lookup.q))

\* "klingon" reaches 55 and no more, and got a match with score 55.
C24_Witness ==
  /\ lookup.query = << "k", "l", "i", "n", "g", "o", "n" >>
  /\ FuzzyLookup
  /\ BestScore(lookup.q) = 55
  /\ lookup.match.score = 55
  /\ lookup.match.code = << "i", "g" >>

\* "luxemboqqqqqq" reaches 54 and got no match.
C24_WitnessBelow ==
  /\ lookup.query = << "l", "u", "x", "e", "m", "b", "o", "q", "q", "q", "q",
                       "q", "q" >>
  /\ FuzzyLookup
  /\ BestScore(lookup.q) = 54
  /\ lookup.match = NoMatch

\* ---------------------------------------------------------------------------
\* C25
\* ---------------------------------------------------------------------------

\* The records lastForeignMsg has held so far: the one it started with and
\* the one each line stored on its arrival.
Remembered ==
  RememberedAtStart
  \cup { StoredFrom(ev[j]) : j \in { k \in 1..Len(ev) :
                                       /\ ev[k].matched
                                       /\ ~ReCommand(ev[k].message)
                                       /\ ~ReDots(ev[k].message) } }

\* Call r of handleLine has written the translation that _tl asked for.
TlReplied(r) ==
  /\ r.matched /\ ReTl(r.message)
  /\ r.calls # << >> /\ r.got # << >>
  /\ r.wrote # << >>

\* C25: the reply of _tl names the sender of the remembered message whose
\* text it translated: for some record m that lastForeignMsg has held, the
\* text given to translate is m.message and the reply is
\* "<m.player> said - <translation> - (from <language>)".
C25_TlReplyFromOneMessage ==
  \A e \in 1..Len(ev) :
    TlReplied(ev[e]) =>
      \E m \in Remembered :
        /\ ev[e].calls[1].text = m.message
        /\ ev[e].wrote[1].message = Output(m.player, ev[e].got[1])

\* ---------------------------------------------------------------------------
\* C26
\* ---------------------------------------------------------------------------

\* C26: whenever the timer of a reply has fired, chat_reader.cfg held, at
\* that moment, the command of that reply: the i-th key press of a call found
\* the i-th reply the call wrote.
C26_FileHoldsReplyAtTrigger ==
  \A e \in 1..Len(ev) :
    \A i \in 1..Len(ev[e].pressed) :
      /\ i <= Len(ev[e].wrote)
      /\ ev[e].pressed[i] =
           CfgCommand(ev[e].wrote[i].message, ev[e].wrote[i].team)

\* ---------------------------------------------------------------------------
\* C27
\* ---------------------------------------------------------------------------

\* The catalog entries with an alias equal to q, by their position.
EntriesWithAlias(q) ==
  { i \in 1..Len(LANG_MAP) : q \in buildLangCandidates[i].aliases }

Str_chinese == << "c", "h", "i", "n", "e", "s", "e" >>

\* C27: when the normalized query equals an alias of some entry,
\* bestLangMatch returns the first such entry of the catalog, with score 100.
C27_ExactAliasFirstEntry ==
  (lookup # NoLookup /\ EntriesWithAlias(lookup.q) # {}) =>
    \E i \in EntriesWithAlias(lookup.q) :
      /\ \A j \in EntriesWithAlias(lookup.q) : i <= j
      /\ lookup.match = [ code |-> LANG_MAP[i].code, name |-> LANG_MAP[i].name,
                          score |-> 100 ]

\* "chinese" is an alias of zh, zh_cn and zh_tw, and zh was returned.
C27_Witness ==
  /\ lookup.q = Str_chinese
  /\ Cardinality(EntriesWithAlias(lookup.q)) = 3
  /\ lookup.match.code = << "z", "h" >>
  /\ lookup.match.score = 100

\* ---------------------------------------------------------------------------
\* C28
\* ---------------------------------------------------------------------------

\* The score of the i-th catalog entry for q: the highest fuzz.ratio of q over
\* the entry's aliases.
EntryScore(q, i) ==
  LET ratios == { FuzzRatio(q, a) : a \in buildLangCandidates[i].aliases }
  IN  CHOOSE v \in ratios : \A w \in ratios : w <= v

\* The entries behind entry i whose score for q equals that of entry i.
LaterTies(q, i) ==
  { j \in (i + 1)..Len(LANG_MAP) : EntryScore(q, j) = EntryScore(q, i) }

\* C28: a match returned by the fuzzy pass is an entry whose score (the
\* maximum over its aliases) is the maximum across entries, and no entry
\* before it in the catalog reaches that score.
C28_FuzzyFirstOfBest ==
  (FuzzyLookup /\ lookup.match # NoMatch) =>
    \E i \in 1..Len(LANG_MAP) :
      /\ lookup.match = [ code  |-> LANG_MAP[i].code,
                          name  |-> LANG_MAP[i].name,
                          score |-> EntryScore(lookup.q, i) ]
      /\ \A j \in 1..Len(LANG_MAP) :
           EntryScore(lookup.q, j) <= EntryScore(lookup.q, i)
      /\ \A j \in 1..(i - 1) :
           EntryScore(lookup.q, j) < EntryScore(lookup.q, i)

\* "turk" scores 73 for tr and for tk, which comes later, and tr was returned.
C28_Witness ==
  /\ lookup.query = << "t", "u", "r", "k" >>
  /\ FuzzyLookup
  /\ lookup.match.code = << "t", "r" >>
  /\ lookup.match.score = 73
  /\ \E i \in 1..Len(LANG_MAP) :
       /\ LANG_MAP[i].code = << "t", "r" >>
       /\ \E j \in LaterTies(lookup.q, i) : LANG_MAP[j].code = << "t", "k" >>

\* ---------------------------------------------------------------------------
\* C29
\* ---------------------------------------------------------------------------

\* s without its parenthesized parts: every "(" is dropped together with the
\* text up to and with the next ")".
RECURSIVE RemoveParenthesized(_)
RemoveParenthesized(s) ==
  LET o == IndexOf(s, "(")
      k == IF o = 0 THEN 0 ELSE IndexOf(Slice(s, o), ")")
  IN  IF o = 0 \/ k = 0 THEN s
      ELSE SubSeq(s, 1, o - 1) \o RemoveParenthesized(Slice(s, o + k))

\* The normalization that removes parenthesized parts with their content.
NormalizedWithoutParenthesized(s) ==
  Trim(ReplaceRuns(
         RemoveParenthesized(ReplaceRuns(ToLowerCase(s), { "_", "-" })),
         WhiteSpace))

\* C29 as stated: the normalized query is the lower-case query with runs of
\* '_' or '-' turned into one space, parenthesized parts removed with their
\* content, white space collapsed and trimmed, and a query whose normalized
\* form is empty gets no match.
C29_ParenthesizedPartsRemoved ==
  lookup # NoLookup =>
    /\ lookup.q = NormalizedWithoutParenthesized(lookup.query)
    /\ NormalizedWithoutParenthesized(lookup.query) = << >> =>
         lookup.match = NoMatch

\* The characters that separate the words of a query.
QuerySeparators == { "_", "-", "(", ")" } \cup WhiteSpace

\* The words of s: its maximal runs of characters that are no separators.
RECURSIVE QueryWords(_, _)
QueryWords(s, word) ==
  IF Len(s) = 0 THEN (IF word = << >> THEN << >> ELSE << word >>)
  ELSE IF s[1] \in QuerySeparators
  THEN (IF word = << >> THEN << >> ELSE << word >>) \o QueryWords(Tail(s), << >>)
  ELSE QueryWords(Tail(s), Append(word, s[1]))

\* The words joined by single spaces.
RECURSIVE JoinWords(_)
JoinWords(ws) ==
  IF Len(ws) = 0 THEN << >>
  ELSE IF Len(ws) = 1 THEN ws[1]
  ELSE ws[1] \o << " " >> \o JoinWords(Tail(ws))

\* C29, amended: the normalized query is the lower-case query in which every
\* run of '_' or '-' and every parenthesis became a space (the text between
\* parentheses stays), white space collapsed and trimmed, that is, its words
\* joined by single spaces; a query whose normalized form is empty gets no
\* match.
C29_ParenthesesBecomeSpaces ==
  lookup # NoLookup =>
    /\ lookup.q = JoinWords(QueryWords(ToLowerCase(lookup.query), << >>))
    /\ lookup.q = << >> => lookup.match = NoMatch

\* "(french)" was normalized to "french" and resolved to fr.
C29_Witness ==
  /\ lookup.query = << "(", "f", "r", "e", "n", "c", "h", ")" >>
  /\ lookup.q = Str_french
  /\ lookup.match.code = << "f", "r" >>

\* "- _" was normalized to the empty string and got no match.
C29_WitnessEmpty ==
  /\ lookup.query = << "-", " ", "_" >>
  /\ lookup.q = << >>
  /\ lookup.match = NoMatch

====
